---- MODULE Spec2Model ----
(***************************************************************************)
(* A model of the generation-and-verification orchestrator of              *)
(* infiniteweb_repro: the retry wrapper (src/utils), the selector          *)
(* registry (src/pipeline/contracts.py), the failure classifier and the    *)
(* per-task generate/test/fix loop (src/pipeline/phases/generation.py)     *)
(* and the orchestrator's run (src/pipeline_v2.py).                        *)
(*                                                                         *)
(* Strings are sequences of tokens; "p in s" of Python is the occurrence   *)
(* of p as a contiguous subsequence of s.                                  *)
(***************************************************************************)
EXTENDS Integers, Sequences, FiniteSets, TLC

VARIABLES
    clsText, clsTier,                       \* failure classifier: input text, tier returned (0: not called yet)
    rtMax, rtPlan, rtAttempt, rtCalls, rtPc, rtResult,   \* with_retry: one call of a wrapped function
    regContracts, regByPage, regLast, regPrev, regCalls, \* SelectorRegistry and its last two register calls
    hasLlm,         \* configuration: an llm was handed to the pipeline (llm=None otherwise)
    runNo, phase,   \* AsyncWebGenPipelineV2.run: which run on the output directory, where it is
    disk,           \* the output directory: logic.js, tests_<id>.js, plan_<id>.md, intermediates, pages
    backup,         \* the directory context._backup_dir names: its copy of logic.js
    ctx,            \* PipelineContext: backend_code, data, spec fields, generated_pages
    cur, tk,        \* GenerationPhase.execute: the loop's task, and each task's position and locals
    calls,          \* kinds of generative-backend calls made in this run
    events,         \* phases entered and planning failures in this run
    lastWriter,     \* the task that last mutated the business-logic script in this run
    fixLog,         \* the _apply_fix call that has just returned
    prevComplete,   \* the previous run finished planning and completed every task
    uArgs, uState   \* a component called on its own: its arguments, its state and result

clsVars == <<clsText, clsTier>>
rtVars  == <<rtMax, rtPlan, rtAttempt, rtCalls, rtPc, rtResult>>
regVars == <<regContracts, regByPage, regLast, regPrev, regCalls>>
pipeVars == <<hasLlm, runNo, phase, disk, backup, ctx, cur, tk, calls, events,
              lastWriter, fixLog, prevComplete>>
unitVars == <<uArgs, uState>>
sysVars == <<clsVars, rtVars, regVars, pipeVars>>
vars    == <<clsVars, rtVars, regVars, pipeVars, unitVars>>

None == "None"

(***************************************************************************)
(* Strings                                                                 *)
(***************************************************************************)

\* Python's  p in s  for strings: p occurs in s as a contiguous part.
Contains(s, p) ==
    \E i \in 0..(Len(s) - Len(p)) : \A j \in 1..Len(p) : s[i + j] = p[j]

AnyIn(s, patterns) == \E p \in patterns : Contains(s, p)

\* Sequences over S of length at most n.
SeqUpTo(S, n) == UNION {[1..k -> S] : k \in 0..n}

(***************************************************************************)
(* GenerationPhase._classify_error_tier                                    *)
(***************************************************************************)

Tier1Patterns ==
    {<<"SyntaxError">>, <<"ReferenceError">>, <<"TypeError">>, <<"is", "not", "defined">>}

Tier2Patterns ==
    {<<"AssertionError">>, <<"Timeout">>, <<"Golden", "Path">>, <<"Integration">>,
     <<"Agent", "Validation">>}

\* Mutant: the Tier-2 patterns are tried first.
ClassifyTier2First(error) ==
    IF AnyIn(error, Tier2Patterns) THEN 2
    ELSE IF AnyIn(error, Tier1Patterns) THEN 1
    ELSE 2

ClassifyErrorTier(error) ==
    IF AnyIn(error, Tier1Patterns) THEN 1
    ELSE IF AnyIn(error, Tier2Patterns) THEN 2
    ELSE 2

MaxErrLen == 3

ErrTokens ==
    {"SyntaxError", "TypeError", "is", "not", "defined", "AssertionError", "Timeout",
     "Golden", "Path", "Integration", "x"}

ClsIdle == clsText = <<>> /\ clsTier = 0

ClsInit == clsText \in SeqUpTo(ErrTokens, MaxErrLen) /\ clsTier = 0

Classify ==
    /\ clsTier = 0
    /\ clsTier' = ClassifyErrorTier(clsText)
    /\ UNCHANGED <<clsText, rtVars, regVars, pipeVars, unitVars>>

(***************************************************************************)
(* with_retry                                                              *)
(***************************************************************************)

MaxRetriesBound == 3

\* What one invocation of the wrapped function does: it raises an Exception,
\* returns None, or returns a value; "" is a value that is empty.
Raise == "raise"
EmptyStr == ""
RetValues == {EmptyStr, "v1"}
CallOutcomes == {Raise, None} \cup RetValues

\* Mutant: range(max_retries).
RetryAttemptsOneLess(maxRetries) == maxRetries

\* for attempt in range(max_retries + 1)
RetryAttempts(maxRetries) == maxRetries + 1

\* Mutant: the last attempt's result is dropped.
IsRetriedResultLast(o, attempt, maxRetries) == o \in {Raise, None} \/ attempt = maxRetries

\* "if result is not None: return result"; an Exception is caught and retried.
IsRetriedResult(o, attempt, maxRetries) == o \in {Raise, None}

\* rtPlan is the wrapped function: what its n-th invocation does (a mock's
\* side_effect list), two entries longer than the largest number of retries.
RetryPlans == [1..(MaxRetriesBound + 2) -> CallOutcomes]

RetryIdle ==
    /\ rtMax = 0 /\ rtPlan = <<>> /\ rtAttempt = 0 /\ rtCalls = 0
    /\ rtPc = "idle" /\ rtResult = None

RetryInit ==
    /\ rtMax \in 0..MaxRetriesBound
    /\ rtPlan \in RetryPlans
    /\ rtAttempt = 0 /\ rtCalls = 0
    /\ rtPc = IF 0 < RetryAttempts(rtMax) THEN "call" ELSE "done"
    /\ rtResult = None

\* One pass of the loop body up to the sleep: func is called once.
RetryInvoke ==
    /\ rtPc = "call"
    /\ rtCalls < Len(rtPlan)
    /\ LET o == rtPlan[rtCalls + 1]
       IN  /\ rtCalls' = rtCalls + 1
           /\ IF ~IsRetriedResult(o, rtAttempt, rtMax)
                THEN /\ rtResult' = o
                     /\ rtPc' = "done"
                     /\ UNCHANGED rtAttempt
                ELSE IF rtAttempt < rtMax
                       THEN /\ rtPc' = "sleep"
                            /\ UNCHANGED <<rtAttempt, rtResult>>
                       ELSE /\ rtAttempt' = rtAttempt + 1
                            /\ rtPc' = IF rtAttempt + 1 < RetryAttempts(rtMax) THEN "call" ELSE "done"
                            /\ rtResult' = None
    /\ UNCHANGED <<rtMax, rtPlan, clsVars, regVars, pipeVars, unitVars>>

\* time.sleep(delay * 2 ** attempt + jitter), then the next pass.
RetryBackoff ==
    /\ rtPc = "sleep"
    /\ rtAttempt' = rtAttempt + 1
    /\ rtPc' = IF rtAttempt + 1 < RetryAttempts(rtMax) THEN "call" ELSE "done"
    /\ rtResult' = None
    /\ UNCHANGED <<rtMax, rtPlan, rtCalls, clsVars, regVars, pipeVars, unitVars>>

(***************************************************************************)
(* SelectorRegistry                                                        *)
(***************************************************************************)

GlobalPage == <<"global">>

Lower(c) == IF c = "A" THEN "a" ELSE IF c = "B" THEN "b" ELSE c

RECURSIVE SafeAction(_)
\* action.replace("_","-").replace(" ","-").replace("'","").replace('"',"").lower()
SafeAction(action) ==
    IF action = <<>> THEN <<>>
    ELSE LET c == Head(action)
             rest == SafeAction(Tail(action))
         IN  IF c \in {"_", " "} THEN <<"-">> \o rest
             ELSE IF c \in {"'", "\""} THEN rest
             ELSE <<Lower(c)>> \o rest

\* CONVENTIONS.get(element_type, "{action}"): the text before {action}.
ConventionPrefix(elementType) ==
    CASE elementType = "button"    -> <<"btn-">>
      [] elementType = "input"     -> <<"input-">>
      [] elementType = "filter"    -> <<"filter-">>
      [] elementType = "form"      -> <<"form-">>
      [] elementType = "link"      -> <<"link-">>
      [] elementType = "select"    -> <<"select-">>
      [] elementType = "card"      -> <<"card-">>
      [] elementType = "container" -> <<"container-">>
      [] OTHER                     -> <<>>

FullSelector(elementType, action) ==
    <<"#">> \o ConventionPrefix(elementType) \o SafeAction(action)

\* key = f"{page}:{action}"
RegistryKey(page, action) == page \o <<":">> \o action

PageList(byPage, page) == IF page \in DOMAIN byPage THEN byPage[page] ELSE <<>>

InSeq(x, s) == \E i \in 1..Len(s) : s[i] = x

\* Mutant: the selector is appended on every call.
ByPageAfterAlways(byPage, page, sel) ==
    [p \in DOMAIN byPage \cup {page} |->
        IF p = page THEN Append(PageList(byPage, page), sel) ELSE byPage[p]]

\* "Track by page": the page's list gets the selector unless it holds it.
ByPageAfter(byPage, page, sel) ==
    [p \in DOMAIN byPage \cup {page} |->
        IF p = page
          THEN IF InSeq(sel, PageList(byPage, page))
                 THEN PageList(byPage, page)
                 ELSE Append(PageList(byPage, page), sel)
          ELSE byPage[p]]

ContractsAfter(contracts, elementType, action, page) ==
    [k \in DOMAIN contracts \cup {RegistryKey(page, action)} |->
        IF k = RegistryKey(page, action)
          THEN [element_type |-> elementType, action |-> action, page |-> page,
                suggested_id |-> FullSelector(elementType, action)]
          ELSE contracts[k]]

\* get(action, page): the suggested_id of the contract stored under the
\* key; the empty text stands for None.
Get(contracts, action, page) ==
    IF RegistryKey(page, action) \in DOMAIN contracts
      THEN contracts[RegistryKey(page, action)].suggested_id
      ELSE <<>>

MaxRegisterCalls == 3

RegElementTypes == {"button", "widget"}
RegActions == {<<"a", "_", "b">>, <<"a", " ", "b">>, <<"A", "'", "b">>, <<"b">>,
               <<"a", ".", "b">>}
RegPages == {GlobalPage, <<"p">>, <<"p", ":", "a">>}

NoCall == [args |-> <<>>, ret |-> <<>>, grew |-> FALSE]

RegIdle ==
    /\ regContracts = <<>> /\ regByPage = <<>>
    /\ regLast = NoCall /\ regPrev = NoCall /\ regCalls = 0

RegInit == RegIdle

\* register(element_type, action, page): regLast records the call, what it
\* returned and whether the page's list grew; regPrev is the call before.
Register ==
    /\ regCalls < MaxRegisterCalls
    /\ \E et \in RegElementTypes, a \in RegActions, p \in RegPages :
        LET sel == FullSelector(et, a)
            after == ByPageAfter(regByPage, p, sel)
        IN  /\ regContracts' = ContractsAfter(regContracts, et, a, p)
            /\ regByPage' = after
            /\ regPrev' = regLast
            /\ regLast' = [args |-> <<et, a, p>>, ret |-> sel,
                           grew |-> Len(after[p]) # Len(PageList(regByPage, p))]
    /\ regCalls' = regCalls + 1
    /\ UNCHANGED <<clsVars, rtVars, pipeVars, unitVars>>

(***************************************************************************)
(* Files and scripts                                                       *)
(***************************************************************************)

NumTasks == 2
MaxRuns == 2

Tasks == 1..NumTasks

NoFile == "NoFile"

\* context.load_file: None when the file does not exist.
LoadFile(f) == IF f = NoFile THEN None ELSE f

\* Python truthiness of an Optional[str].
Truthy(x) == x \notin {None, ""}

\* The texts logic.js takes in the model, by what the code reads of them:
\* the length and the structural markers ('WebsiteSDK', 'window.', 'class').
\* "base" is _get_base_logic() (299 characters), "template" is
\* _get_full_logic_template() (2276 characters); the others stand for LLM or
\* agent output: "good" and "buggy" are complete scripts, "nomark" a long text
\* without the markers, "short" a truncated one.
ScriptLen(code) ==
    CASE code = ""         -> 0
      [] code = "short"    -> 50
      [] code = "base"     -> 299
      [] code = "template" -> 2276
      [] OTHER             -> 600

HasMarkers(code) == code \in {"base", "template", "good", "buggy"}

MinCodeLen == 100
FallbackLen == 200
SkipCheckLen == 500
MaxFixRetries == 3

\* _is_valid_sdk_code
IsValidSdkCode(code) ==
    /\ Truthy(code)
    /\ ScriptLen(code) >= MinCodeLen
    /\ HasMarkers(code)

\* No error text: the validator succeeded.
Pass == <<>>

\* What "node backend_tests.js" reports for a script and a test file: Pass
\* (exit code 0) or the error text. An empty test file runs to exit code 0.
NodeRun(logic, tests) ==
    IF tests = "" THEN Pass
    ELSE CASE logic = "good"            -> Pass
           [] logic = "short"           -> <<"Test", "failed", "SyntaxError">>
           [] logic \in {"", "base", "nomark"} -> <<"Test", "failed", "TypeError">>
           [] OTHER                     -> <<"Test", "failed", "AssertionError">>

\* BackendValidator.validate
BackendValidate(logic, tests) ==
    IF logic = NoFile THEN <<"Missing", "logic.js">>
    ELSE NodeRun(logic, tests)

\* Errors IntegrationValidator.validate_all_pages reports for the pages.
IntegrationErrors == {<<"Page", "error", "TypeError">>, <<"Console", "error", "x">>,
                      <<"Navigation", "error", "Timeout">>}

AllValidators == {"backend", "integration", "golden_path"}

\* What one call of _verify_task gives: the result, the validators that
\* passed, whether an exception left the call, whether the agent validator
\* was called, and the validators that were run, in order.
VerifyResult(ok, error, passed, raised, agentCalled, ran) ==
    [ok |-> ok, error |-> error, passed |-> passed, raised |-> raised,
     agentCalled |-> agentCalled, ran |-> ran]

\* Mutant: the next validator is run whatever the last one reported.
ContinuesAfterAlways(success) == TRUE

\* _verify_task, lines 264-265 and 272-273: "if not success: return".
ContinuesAfter(success) == success

\* _verify_task, lines 262-265: the backend validator. Its result is a
\* function of the files.
BackendStage(logic, tests) ==
    LET b == BackendValidate(logic, tests)
    IN  IF b = Pass
          THEN VerifyResult(TRUE, <<>>, {"backend"}, FALSE, FALSE, <<"backend">>)
          ELSE VerifyResult(FALSE, <<"Backend">> \o b, {}, FALSE, FALSE, <<"backend">>)

\* _verify_task, lines 267-273: the integration validator. The browser is
\* not modelled and its result is free; its exception leaves _verify_task.
IntegrationStage(r) ==
    IF ~ContinuesAfter(r.ok) THEN {r}
    ELSE LET ran == Append(r.ran, "integration")
         IN  {[r EXCEPT !.ok = FALSE, !.ran = ran,
                        !.error = IF r.ok THEN <<"Integration">> \o e ELSE @] :
                  e \in IntegrationErrors}
             \cup {[r EXCEPT !.ok = FALSE, !.raised = TRUE, !.ran = ran]}
             \cup {[r EXCEPT !.passed = @ \cup {"integration"}, !.ran = ran]}

\* _verify_task, lines 275-289: the agent validator runs only if an llm was
\* given; its failure fails the attempt, its exception is logged and ignored.
AgentStage(r, llm) ==
    IF ~ContinuesAfter(r.ok) \/ r.raised \/ ~llm THEN {r}
    ELSE LET called == [r EXCEPT !.agentCalled = TRUE, !.ran = Append(@, "golden_path")]
         IN  {[called EXCEPT !.passed = @ \cup {"golden_path"}],
              [called EXCEPT !.ok = FALSE,
                             !.error = IF r.ok THEN <<"Agent", "Validation", "x">> ELSE @],
              called}

\* _verify_task: every result one call can have.
VerifyTask(logic, tests, llm) ==
    UNION {AgentStage(r, llm) : r \in IntegrationStage(BackendStage(logic, tests))}

(***************************************************************************)
(* AsyncWebGenPipelineV2.run, PipelineContext.restore, PlanningPhase       *)
(***************************************************************************)

NoBackup == "NoBackup"

EmptyCtx ==
    [backend_code |-> "", data |-> "none", tasks |-> FALSE, pages |-> FALSE,
     interfaces |-> FALSE, generated_pages |-> FALSE, architecture |-> FALSE,
     task_plans |-> {}]

EmptyDisk ==
    [logic |-> NoFile, tests |-> [t \in Tasks |-> NoFile], plan |-> [t \in Tasks |-> NoFile],
     interm |-> {}, data |-> "none", pages |-> FALSE]

NewTask ==
    [pc |-> "tests", task_tests |-> None, existing_plan |-> FALSE,
     should_implement |-> TRUE, attempt |-> 0, error |-> <<>>, passed |-> {}]

NoFix == [kind |-> "none", agentRan |-> FALSE, pre |-> NoFile, left |-> NoFile,
          after |-> NoFile, snapshot |-> FALSE]

\* The record of a task that has ended: the locals are gone, the validators
\* that passed and whether the stored script was kept are remembered.
Finished(t, how, passed) ==
    [NewTask EXCEPT !.pc = how, !.passed = passed,
                    !.should_implement = tk[t].should_implement]

PipeIdle ==
    /\ hasLlm = FALSE /\ runNo = 0 /\ phase = "idle"
    /\ disk = EmptyDisk /\ backup = NoBackup /\ ctx = EmptyCtx
    /\ cur = 0 /\ tk = [t \in Tasks |-> NewTask]
    /\ calls = {} /\ events = {} /\ lastWriter = 0 /\ fixLog = NoFix
    /\ prevComplete = FALSE

\* A first run on an empty output directory.
PipeInit ==
    /\ hasLlm \in BOOLEAN /\ runNo = 1 /\ phase = "restore"
    /\ disk = EmptyDisk /\ backup = NoBackup /\ ctx = EmptyCtx
    /\ cur = 0 /\ tk = [t \in Tasks |-> NewTask]
    /\ calls = {} /\ events = {} /\ lastWriter = 0 /\ fixLog = NoFix
    /\ prevComplete = FALSE

pureVars == <<clsVars, rtVars, regVars, unitVars>>

\* PipelineContext.restore on a new context: the architecture and the task
\* plans are not read back.
Restored(d) ==
    [EmptyCtx EXCEPT
        !.backend_code = IF Truthy(LoadFile(d.logic)) THEN d.logic ELSE "",
        !.data = IF d.data = "full" THEN "full" ELSE "none",
        !.tasks = "tasks" \in d.interm,
        !.pages = "final_arch" \in d.interm,
        !.interfaces = "interfaces" \in d.interm,
        !.generated_pages = ("final_arch" \in d.interm /\ d.pages)]

\* run, lines 95-96: a new context is built and restored from the output
\* directory. Until then ctx is the context the previous run ended with.
Restore ==
    /\ phase = "restore"
    /\ ctx' = Restored(disk)
    /\ phase' = "planning"
    /\ events' = events \cup {"planning"}
    /\ UNCHANGED <<hasLlm, runNo, disk, backup, cur, tk, calls, lastWriter, fixLog,
                   prevComplete, pureVars>>

\* The intermediates the planning sub-steps 1..n have written.
PlanningWritten(n) ==
    (IF n >= 1 THEN {"tasks"} ELSE {}) \cup (IF n >= 2 THEN {"initial_arch"} ELSE {})
    \cup (IF n >= 3 THEN {"interfaces"} ELSE {}) \cup (IF n >= 4 THEN {"final_arch"} ELSE {})
    \cup (IF n >= 5 THEN {"design_analysis"} ELSE {})

\* The generators the planning sub-steps 1..n call.
PlanningCalls(n) ==
    {"planning"}
    \cup (IF n >= 1 THEN {"task_gen"} ELSE {}) \cup (IF n >= 2 THEN {"arch_initial"} ELSE {})
    \cup (IF n >= 3 THEN {"interface"} ELSE {}) \cup (IF n >= 4 THEN {"arch_final"} ELSE {})
    \cup (IF n >= 5 THEN {"design"} ELSE {})

\* The intermediate file a planning generator's result is saved in.
IntermediateOf(gen) ==
    CASE gen = "task_gen" -> "tasks"
      [] gen = "arch_initial" -> "initial_arch"
      [] gen = "interface" -> "interfaces"
      [] gen = "arch_final" -> "final_arch"
      [] OTHER -> "design_analysis"

\* Mutant: run logs a planning failure and goes on.
AfterPlanningFailureContinue == "generation"

\* run, lines 118-120: the exception is logged and raised again.
AfterPlanningFailure == "raised"

\* PlanningPhase.execute called by run. failAt is the sub-step (1 tasks,
\* 2 initial architecture, 3 interfaces, 4 final architecture, 5 design
\* analysis) whose generator fails for good, 0 if none does.
Planning ==
    /\ phase = "planning"
    /\ IF ctx.tasks /\ ctx.interfaces /\ ctx.pages
         THEN /\ phase' = "generation"
              /\ events' = events \cup {"generation"}
              /\ UNCHANGED <<disk, ctx, calls>>
         ELSE IF "final_arch" \in disk.interm
           THEN /\ ctx' = [ctx EXCEPT !.pages = FALSE, !.architecture = TRUE,
                                      !.tasks = "tasks" \in disk.interm,
                                      !.interfaces = "interfaces" \in disk.interm]
                /\ phase' = "generation"
                /\ events' = events \cup {"generation"}
                /\ UNCHANGED <<disk, calls>>
           ELSE \E failAt \in 0..5 :
                /\ calls' = calls \cup PlanningCalls(IF failAt = 0 THEN 5 ELSE failAt)
                /\ IF failAt = 0
                     THEN /\ disk' = [disk EXCEPT !.interm = PlanningWritten(5)]
                          /\ ctx' = [ctx EXCEPT !.tasks = TRUE, !.pages = TRUE,
                                                !.interfaces = TRUE, !.architecture = TRUE]
                          /\ phase' = "generation"
                          /\ events' = events \cup {"generation"}
                     ELSE /\ disk' = [disk EXCEPT !.interm = @ \cup PlanningWritten(failAt - 1)]
                          /\ ctx' = [ctx EXCEPT !.tasks = failAt > 1, !.pages = failAt > 2,
                                                !.interfaces = failAt > 3,
                                                !.architecture = failAt > 4]
                          /\ phase' = AfterPlanningFailure
                          /\ events' = events \cup {"planning_failed"}
                                          \cup ({AfterPlanningFailure} \ {"raised"})
    /\ UNCHANGED <<hasLlm, runNo, backup, cur, tk, lastWriter, fixLog, prevComplete,
                   pureVars>>

(***************************************************************************)
(* GenerationPhase                                                         *)
(***************************************************************************)

\* Mutant: the tasks are started together (asyncio.gather).
ScheduledTogether(t) == cur \in Tasks /\ tk[t].pc \notin {"done", "failed"}

\* execute, lines 75-79: a for loop that awaits each _process_task.
Scheduled(t) == cur = t

Active(t) == phase = "generation" /\ Scheduled(t)

\* Mutant: the exception of a task leaves execute.
AfterTaskFailureAbort == "raised"

\* execute, lines 81-83: the exception is logged, the loop goes on.
AfterTaskFailure == "generation"

Fail(t) ==
    /\ tk' = [tk EXCEPT ![t] = Finished(t, "failed", {})]
    /\ cur' = cur + 1
    /\ phase' = AfterTaskFailure

Goto(t, rec) ==
    /\ tk' = [tk EXCEPT ![t] = rec]
    /\ UNCHANGED <<cur, phase>>

\* What data_gen.generate returns: the data, or {} when the generation or
\* the parsing of its answer failed.
DataOutputs == {"full", "empty"}

\* execute, lines 61-72
GenerationStart ==
    /\ phase = "generation" /\ cur = 0
    /\ IF ctx.data = "full"
         THEN /\ ctx' = [ctx EXCEPT !.backend_code = IF Truthy(@) THEN @ ELSE "base"]
              /\ UNCHANGED <<disk, calls>>
         ELSE \E d \in DataOutputs :
              /\ calls' = calls \cup {"data"}
              /\ disk' = [disk EXCEPT !.data = d]
              /\ ctx' = [ctx EXCEPT !.data = d,
                                    !.backend_code = IF Truthy(@) THEN @ ELSE "base"]
    /\ cur' = 1
    /\ UNCHANGED <<hasLlm, runNo, phase, backup, tk, events, lastWriter, fixLog,
                   prevComplete, pureVars>>

\* What generate_task_tests and generate_task_plan return: a text, or None
\* once with_retry has given up.
TextOutputs == {"text", None}

\* Mutant: a stored file is never taken; the step is always run again.
HasExistingNever(f) == FALSE

\* _process_task, lines 95-97 and 110-112: the step is skipped if its file
\* exists and is not empty.
HasExisting(f) == Truthy(LoadFile(f))

\* _process_task, lines 93-106. save_file(None) truncates the file and raises.
TaskTests(t) ==
    /\ Active(t) /\ tk[t].pc = "tests"
    /\ IF HasExisting(disk.tests[t])
         THEN /\ Goto(t, [tk[t] EXCEPT !.pc = "plan", !.task_tests = disk.tests[t]])
              /\ UNCHANGED <<disk, calls>>
         ELSE \E r \in TextOutputs :
              /\ calls' = calls \cup {"tests"}
              /\ disk' = [disk EXCEPT !.tests[t] = IF r = None THEN "" ELSE r]
              /\ IF r = None THEN Fail(t)
                 ELSE Goto(t, [tk[t] EXCEPT !.pc = "plan", !.task_tests = r])
    /\ UNCHANGED <<hasLlm, runNo, backup, ctx, events, lastWriter, fixLog, prevComplete,
                   pureVars>>

\* _process_task, lines 108-123
TaskPlan(t) ==
    /\ Active(t) /\ tk[t].pc = "plan"
    /\ IF HasExisting(disk.plan[t])
         THEN /\ Goto(t, [tk[t] EXCEPT !.pc = "precheck", !.existing_plan = TRUE])
              /\ ctx' = [ctx EXCEPT !.task_plans = @ \cup {t}]
              /\ UNCHANGED <<disk, calls>>
         ELSE \E r \in TextOutputs :
              /\ calls' = calls \cup {"plan"}
              /\ disk' = [disk EXCEPT !.plan[t] = IF r = None THEN "" ELSE r]
              /\ ctx' = [ctx EXCEPT !.task_plans = IF r = None THEN @ ELSE @ \cup {t}]
              /\ IF r = None THEN Fail(t)
                 ELSE Goto(t, [tk[t] EXCEPT !.pc = "precheck", !.existing_plan = FALSE])
    /\ UNCHANGED <<hasLlm, runNo, backup, events, lastWriter, fixLog, prevComplete,
                   pureVars>>

AgentCalls(r) == IF r.agentCalled THEN {"validator"} ELSE {}

\* _process_task, lines 125-136
TaskPrecheck(t) ==
    /\ Active(t) /\ tk[t].pc = "precheck"
    /\ IF tk[t].existing_plan /\ Truthy(ctx.backend_code)
          /\ ScriptLen(ctx.backend_code) > SkipCheckLen
         THEN \E r \in VerifyTask(disk.logic, disk.tests[t], hasLlm) :
              /\ calls' = calls \cup AgentCalls(r)
              /\ Goto(t, [tk[t] EXCEPT !.pc = "implement",
                                       !.should_implement = ~(r.ok /\ ~r.raised)])
         ELSE /\ Goto(t, [tk[t] EXCEPT !.pc = "implement"])
              /\ UNCHANGED calls
    /\ UNCHANGED <<hasLlm, runNo, disk, backup, ctx, events, lastWriter, fixLog,
                   prevComplete, pureVars>>

\* What implement_task_logic returns.
ImplOutputs == {"good", "buggy", "nomark", "short", None}

\* _process_task, line 146
AcceptsNewCode(new_code) == Truthy(new_code) /\ ScriptLen(new_code) > MinCodeLen

\* _process_task, lines 138-153. With no script in memory (None) the
\* fallback raises.
TaskImplement(t) ==
    /\ Active(t) /\ tk[t].pc = "implement"
    /\ IF ~tk[t].should_implement
         THEN /\ Goto(t, [tk[t] EXCEPT !.pc = "verify"])
              /\ UNCHANGED <<disk, ctx, calls, lastWriter>>
         ELSE \E new_code \in ImplOutputs :
              /\ calls' = calls \cup {"generator"}
              /\ IF AcceptsNewCode(new_code)
                   THEN /\ ctx' = [ctx EXCEPT !.backend_code = new_code]
                        /\ disk' = [disk EXCEPT !.logic = new_code]
                        /\ lastWriter' = t
                        /\ Goto(t, [tk[t] EXCEPT !.pc = "instrument"])
                   ELSE IF ctx.backend_code = None
                     THEN /\ Fail(t)
                          /\ UNCHANGED <<disk, ctx, lastWriter>>
                     ELSE LET code == IF ScriptLen(ctx.backend_code) < FallbackLen
                                        THEN "template" ELSE ctx.backend_code
                          IN  /\ ctx' = [ctx EXCEPT !.backend_code = code]
                              /\ disk' = [disk EXCEPT !.logic = code]
                              /\ lastWriter' = t
                              /\ Goto(t, [tk[t] EXCEPT !.pc = "instrument"])
    /\ UNCHANGED <<hasLlm, runNo, backup, events, fixLog, prevComplete, pureVars>>

\* What inject returns for a script: the script (nothing to instrument)
\* or None.
InjectOutputs(code) == {code, None}

\* _process_task, lines 155-182: the result of inject becomes the script
\* and is saved; save_file(None) truncates the file and raises, and the
\* exception is logged.
TaskInstrument(t) ==
    /\ Active(t) /\ tk[t].pc = "instrument"
    /\ \E r \in InjectOutputs(ctx.backend_code) :
         /\ calls' = calls \cup {"generator"}
         /\ ctx' = [ctx EXCEPT !.backend_code = r]
         /\ disk' = [disk EXCEPT !.logic = IF r = None THEN "" ELSE r]
    /\ lastWriter' = t
    /\ Goto(t, [tk[t] EXCEPT !.pc = "frontend"])
    /\ UNCHANGED <<hasLlm, runNo, backup, events, fixLog, prevComplete, pureVars>>

\* _process_task, lines 185-202, and _save_pages
TaskFrontend(t) ==
    /\ Active(t) /\ tk[t].pc = "frontend"
    /\ ctx' = [ctx EXCEPT !.generated_pages = TRUE]
    /\ disk' = [disk EXCEPT !.pages = TRUE]
    /\ calls' = calls \cup {"generator"}
    /\ Goto(t, [tk[t] EXCEPT !.pc = "verify"])
    /\ UNCHANGED <<hasLlm, runNo, backup, events, lastWriter, fixLog, prevComplete,
                   pureVars>>

\* _verify_with_fixes, lines 217-230, one pass of the loop up to the fix.
TaskVerify(t) ==
    /\ Active(t) /\ tk[t].pc = "verify"
    /\ \E r \in VerifyTask(disk.logic, disk.tests[t], hasLlm) :
         /\ calls' = calls \cup AgentCalls(r)
         /\ IF r.raised THEN Fail(t)
            ELSE IF r.ok
              THEN /\ tk' = [tk EXCEPT ![t] = Finished(t, "done", r.passed)]
                   /\ cur' = cur + 1
                   /\ UNCHANGED phase
              ELSE IF tk[t].attempt < MaxFixRetries - 1
                THEN Goto(t, [tk[t] EXCEPT !.pc = "fix", !.error = r.error])
                ELSE Fail(t)
    /\ fixLog' = NoFix
    /\ UNCHANGED <<hasLlm, runNo, disk, backup, ctx, events, lastWriter, prevComplete,
                   pureVars>>

\* Mutant: the task is declared done once the fix is applied.
AfterFixDone == "done"

\* _verify_with_fixes, lines 217-228: after _apply_fix the loop goes to its
\* next pass, which verifies again.
AfterFix == "verify"

\* What implement_task_fix returns.
FixOutputs == {"good", "buggy", "nomark", None}

\* What the agent can leave in logic.js.
AgentLeaves(code) == {code, "good", "nomark"}

\* _restore_backup: the saved copy is written back, if there is one.
RestoreBackup(saved, onDisk) == IF saved = NoBackup THEN onDisk ELSE saved

\* _apply_fix, lines 354-361: the script is checked, and restored if
\* invalid, only when the agent reported success.
RestoresAfter(agent_success, left) == agent_success /\ ~IsValidSdkCode(LoadFile(left))

FixRecord(kind, agentRan, pre, left, after, snapshot) ==
    [kind |-> kind, agentRan |-> agentRan, pre |-> pre, left |-> left, after |-> after,
     snapshot |-> snapshot]

\* Mutant: the answer of the fix is stored whatever it is.
KeepsFixAlways(new_code) == TRUE

\* _apply_fix, line 313: "if self._is_valid_sdk_code(new_code)"
KeepsFix(new_code) == IsValidSdkCode(new_code)

\* _apply_fix, lines 305-318: the targeted fix of the script.
FixBackend(t) ==
    \E new_code \in FixOutputs :
        /\ calls' = calls \cup {"repair"}
        /\ IF KeepsFix(new_code)
             THEN /\ ctx' = [ctx EXCEPT !.backend_code = new_code]
                  /\ disk' = [disk EXCEPT !.logic = new_code]
                  /\ lastWriter' = t
             ELSE UNCHANGED <<ctx, disk, lastWriter>>
        /\ fixLog' = FixRecord("tier1", FALSE, disk.logic, disk.logic, disk'.logic, FALSE)
        /\ Goto(t, [tk[t] EXCEPT !.pc = AfterFix, !.attempt = @ + 1])
        /\ UNCHANGED backup

\* _apply_fix, lines 319-339: the arguments of fix_controller and of
\* fix_task_view name "registry", which _apply_fix does not define, so the
\* call raises NameError; for other errors nothing is done.
FixFrontend(t) ==
    /\ IF AnyIn(tk[t].error, {<<"Element", "not", "found">>, <<"CSS">>, <<"Timeout">>})
         THEN Fail(t)
         ELSE Goto(t, [tk[t] EXCEPT !.pc = AfterFix, !.attempt = @ + 1])
    /\ fixLog' = FixRecord("none", FALSE, disk.logic, disk.logic, disk.logic, FALSE)
    /\ UNCHANGED <<ctx, disk, lastWriter, backup, calls>>

\* _apply_fix, lines 340-364, with _create_backup and _restore_backup.
\* backupOk: _create_backup copied the files (its own failure is logged and
\* leaves context._backup_dir as it was). ran: the agent was started (if not,
\* the exception is caught and the backup restored). agent_success: the
\* value resolve returns; it returns False when the agent loop raises.
FixAgent(t) ==
    \E backupOk \in BOOLEAN, ran \in BOOLEAN, agent_success \in BOOLEAN,
       left \in AgentLeaves(disk.logic) :
        LET saved == IF backupOk THEN disk.logic ELSE backup
            after == IF ~ran THEN RestoreBackup(saved, disk.logic)
                     ELSE IF RestoresAfter(agent_success, left)
                       THEN RestoreBackup(saved, left)
                       ELSE left
        IN  /\ ran \/ (~agent_success /\ left = disk.logic)
            /\ backup' = saved
            /\ calls' = calls \cup (IF ran THEN {"repair"} ELSE {})
            /\ disk' = [disk EXCEPT !.logic = after]
            /\ ctx' = IF ran /\ agent_success /\ IsValidSdkCode(LoadFile(left))
                        THEN [ctx EXCEPT !.backend_code = left] ELSE ctx
            /\ lastWriter' = IF ran \/ after # disk.logic THEN t ELSE lastWriter
            /\ fixLog' = FixRecord("agent", ran, disk.logic, left, after, backupOk)
            /\ Goto(t, [tk[t] EXCEPT !.pc = AfterFix, !.attempt = @ + 1])

\* Mutant: the branch is chosen by the tier of the error alone.
UsesTargetedFixByTier(error_tier, attempt) == error_tier = 1

\* _apply_fix, line 305: the targeted fix is used for a Tier-1 error and for
\* the first attempt on a Tier-2 error.
UsesTargetedFix(error_tier, attempt) == error_tier = 1 \/ (error_tier = 2 /\ attempt = 0)

\* _apply_fix, lines 303-341: the branch taken for an error text.
FixBranch(error, attempt) ==
    LET error_tier == ClassifyErrorTier(error)
    IN  IF UsesTargetedFix(error_tier, attempt)
          THEN IF Contains(error, <<"Backend">>) \/ error_tier = 1
                 THEN "backend" ELSE "frontend"
          ELSE "agent"

\* _apply_fix
TaskFix(t) ==
    /\ Active(t) /\ tk[t].pc = "fix"
    /\ CASE FixBranch(tk[t].error, tk[t].attempt) = "backend"  -> FixBackend(t)
         [] FixBranch(tk[t].error, tk[t].attempt) = "frontend" -> FixFrontend(t)
         [] OTHER                                              -> FixAgent(t)
    /\ UNCHANGED <<hasLlm, runNo, events, prevComplete, pureVars>>

\* execute returns to run, which starts the verification phase.
GenerationReturn ==
    /\ phase = "generation" /\ cur = NumTasks + 1
    /\ phase' = "verification"
    /\ events' = events \cup {"verification"}
    /\ UNCHANGED <<hasLlm, runNo, disk, backup, ctx, cur, tk, calls, lastWriter, fixLog,
                   prevComplete, pureVars>>

(***************************************************************************)
(* VerificationPhase                                                       *)
(***************************************************************************)

\* VerificationPhase.execute and run, lines 110-116: with an llm, the agent
\* validator is run for every task whose start page has markup, its
\* exceptions caught; then the results are reported and run prints the
\* summary.
VerificationExecute ==
    /\ phase = "verification"
    /\ calls' = calls \cup (IF hasLlm /\ ctx.generated_pages
                              THEN {"validator"} ELSE {})
    /\ phase' = "complete"
    /\ events' = events \cup {"summary"}
    /\ UNCHANGED <<hasLlm, runNo, disk, backup, ctx, cur, tk, lastWriter, fixLog,
                   prevComplete, pureVars>>

\* The run has ended and the orchestrator is started again on the same
\* output directory, the files as the last run left them.
Rerun ==
    /\ phase \in {"complete", "raised"}
    /\ runNo < MaxRuns
    /\ runNo' = runNo + 1
    /\ phase' = "restore"
    /\ prevComplete' = (phase = "complete" /\ \A t \in Tasks : tk[t].pc = "done")
    /\ backup' = NoBackup
    /\ cur' = 0
    /\ tk' = [t \in Tasks |-> NewTask]
    /\ calls' = {}
    /\ events' = {}
    /\ lastWriter' = 0
    /\ fixLog' = NoFix
    /\ UNCHANGED <<hasLlm, disk, ctx, pureVars>>

(***************************************************************************)
(* GoldenPathValidator._validate_steps                                     *)
(***************************************************************************)

\* No component is being called on its own.
UnitIdle == uArgs = <<>> /\ uState = <<>>

\* The other components are idle.
SysIdle == ClsIdle /\ RetryIdle /\ RegIdle /\ PipeIdle

\* A step without a selector: step.get("selector") is None or empty.
NoSelector == <<>>

\* selector.lstrip('#.')
RECURSIVE Lstrip(_)
Lstrip(sel) ==
    IF sel # <<>> /\ Head(sel) \in {"#", "."} THEN Lstrip(Tail(sel)) ELSE sel

\* selector.startswith('#')
StartsWithHash(sel) == sel # <<>> /\ Head(sel) = "#"

\* _validate_steps, line 168
FuzzyMatch(selector, valid) ==
    \/ Contains(Lstrip(valid), Lstrip(selector))
    \/ Contains(Lstrip(selector), Lstrip(valid))

\* Mutant: any fuzzy match is taken as the replacement.
BothIdsAny(valid, selector) == TRUE

\* _validate_steps, line 170
BothIds(valid, selector) == StartsWithHash(valid) /\ StartsWithHash(selector)

\* _validate_steps, lines 165-178: the first valid selector, in list order,
\* that matches and passes the identifier test replaces the selector; if
\* there is none the step is kept as proposed.
RECURSIVE FuzzyCorrect(_, _)
FuzzyCorrect(selector, valid_selectors) ==
    IF valid_selectors = <<>> THEN selector
    ELSE LET valid == Head(valid_selectors)
         IN  IF FuzzyMatch(selector, valid) /\ BothIds(valid, selector)
               THEN valid
               ELSE FuzzyCorrect(selector, Tail(valid_selectors))

\* _validate_steps, lines 151-178, one step
ValidateStep(selector, valid_selectors) ==
    IF selector = NoSelector THEN selector
    ELSE IF InSeq(selector, valid_selectors) THEN selector
    ELSE FuzzyCorrect(selector, valid_selectors)

\* _validate_steps: (is_fully_valid, corrected_steps)
ValidateSteps(steps, valid_selectors) ==
    [is_valid |-> TRUE,
     steps |-> [i \in 1..Len(steps) |-> ValidateStep(steps[i], valid_selectors)]]

MaxGpSteps == 1
MaxValidSelectors == 2

\* Selectors proposed and extracted: an identifier, a class or a tag
\* selector whose name is "title", "task-title" or "task-".
GpSelectors ==
    {p \o b : p \in {<<"#">>, <<".">>, <<>>},
              b \in {<<"title">>, <<"task-", "title">>, <<"task-">>}}

GpInit ==
    /\ uArgs \in [steps : SeqUpTo(GpSelectors \cup {NoSelector}, MaxGpSteps),
                  valid_selectors : SeqUpTo(GpSelectors, MaxValidSelectors)]
    /\ uState = [pc |-> "call", result |-> [is_valid |-> FALSE, steps |-> <<>>]]

GpValidateSteps ==
    /\ uState.pc = "call"
    /\ uState' = [pc |-> "done",
                  result |-> ValidateSteps(uArgs.steps, uArgs.valid_selectors)]
    /\ UNCHANGED <<uArgs, sysVars>>

InitGoldenPath == GpInit /\ SysIdle

SpecGoldenPath == InitGoldenPath /\ [][GpValidateSteps]_vars

(***************************************************************************)
(* The file servers of the validators                                      *)
(* IntegrationValidator.validate_all_pages, GoldenPathValidator            *)
(* .execute_path (both with HTTPServerContext) and AgentValidator.validate *)
(* (PlaywrightEnvironment with LocalWebServer)                             *)
(***************************************************************************)

\* The pages of validate_all_pages, the steps of execute_path, the steps of
\* the agent: at most this many.
MaxSrvItems == 2

SrvValidators == {"integration", "golden_path", "agent"}

\* server: "none" (no socket bound), "running" (bound, serve_forever
\* thread started), "closed" (shutdown and server_close done).
\* started: a server was started during the call.
SrvState(pc, server, started, browser, i, errors, outcome) ==
    [pc |-> pc, server |-> server, started |-> started, browser |-> browser,
     i |-> i, errors |-> errors, outcome |-> outcome]

SrvInit ==
    /\ uArgs \in [validator : SrvValidators, n : 0..MaxSrvItems]
    /\ uState = SrvState("call", "none", FALSE, "none", 0, FALSE, "none")

\* Mutant: the server is shut down only when the block is left normally.
ExitOnlyOnReturn(server, exc) == IF server = "running" /\ ~exc THEN "closed" ELSE server

\* HTTPServerContext.__exit__, LocalWebServer.stop: whatever exception is
\* passing, a server that was started is shut down and closed.
ServerExit(server, exc) == IF server = "running" THEN "closed" ELSE server

\* Leaving the "with HTTPServerContext" block: __exit__ is called with the
\* exception, if any, and does not swallow it.
LeaveWith(st, outcome) ==
    [st EXCEPT !.pc = "done", !.outcome = outcome,
               !.server = ServerExit(st.server, outcome = "raised")]

\* validate_all_pages, lines 190-198, and execute_path, lines 205-258: the
\* import of playwright fails and the call returns, or __enter__ binds the
\* port and starts the thread, or TCPServer raises (port taken meanwhile).
ServerEnter ==
    /\ uArgs.validator \in {"integration", "golden_path"} /\ uState.pc = "call"
    /\ \E how \in {"import_error", "bind_error", "ok"} :
         uState' = CASE how = "import_error" ->
                          [uState EXCEPT !.pc = "done", !.outcome = "fail"]
                     [] how = "bind_error" ->
                          [uState EXCEPT !.pc = "done", !.outcome = "raised"]
                     [] OTHER ->
                          [uState EXCEPT !.pc = "launch", !.server = "running",
                                         !.started = TRUE]
    /\ UNCHANGED <<uArgs, sysVars>>

\* async_playwright() and chromium.launch (and new_page in execute_path):
\* an exception leaves the with block.
BrowserLaunch ==
    /\ uArgs.validator \in {"integration", "golden_path"} /\ uState.pc = "launch"
    /\ \E ok \in BOOLEAN :
         uState' = IF ok THEN [uState EXCEPT !.pc = "loop", !.browser = "open"]
                   ELSE LeaveWith(uState, "raised")
    /\ UNCHANGED <<uArgs, sysVars>>

\* validate_all_pages, lines 202-241, one page: it is missing, or it loads
\* with or without errors (a navigation error is caught and recorded), or
\* new_page or page.close raises.
IntegrationPage ==
    /\ uArgs.validator = "integration" /\ uState.pc = "loop" /\ uState.i < uArgs.n
    /\ \E how \in {"missing", "clean", "errors", "raise"} :
         uState' = IF how = "raise" THEN LeaveWith(uState, "raised")
                   ELSE [uState EXCEPT !.i = @ + 1,
                                       !.errors = @ \/ how \in {"missing", "errors"}]
    /\ UNCHANGED <<uArgs, sysVars>>

\* validate_all_pages, lines 243-245
IntegrationReturn ==
    /\ uArgs.validator = "integration" /\ uState.pc = "loop" /\ uState.i = uArgs.n
    /\ \E closed \in BOOLEAN :
         uState' = IF closed
                     THEN LeaveWith([uState EXCEPT !.browser = "closed"],
                                    IF uState.errors THEN "fail" ELSE "ok")
                     ELSE LeaveWith(uState, "raised")
    /\ UNCHANGED <<uArgs, sysVars>>

\* execute_path, lines 382-384: the handler closes the browser and returns
\* the failure; if browser.close raises there, the exception leaves the
\* with block.
GoldenPathExcept(st) ==
    {LeaveWith([st EXCEPT !.browser = "closed"], "fail"), LeaveWith(st, "raised")}

\* execute_path, lines 310-363, one step (page.goto before the first): the
\* element is found and the action done; or it is not found and the step is
\* skipped (navigation to the current page); or it is not found, the
\* browser closed and the failure returned; or something raises.
GoldenPathStep ==
    /\ uArgs.validator = "golden_path" /\ uState.pc = "loop" /\ uState.i < uArgs.n
    /\ \E how \in {"done", "skipped", "not_found", "raise"} :
         uState' \in CASE how \in {"done", "skipped"} -> {[uState EXCEPT !.i = @ + 1]}
                       [] how = "not_found" ->
                            {LeaveWith([uState EXCEPT !.browser = "closed"], "fail")}
                            \cup GoldenPathExcept(uState)
                       [] OTHER -> GoldenPathExcept(uState)
    /\ UNCHANGED <<uArgs, sysVars>>

\* execute_path, lines 365-380: the evaluator is run and the result returned.
GoldenPathReturn ==
    /\ uArgs.validator = "golden_path" /\ uState.pc = "loop" /\ uState.i = uArgs.n
    /\ \E how \in {"passed", "not_passed", "raise"} :
         uState' \in CASE how = "passed" ->
                            {LeaveWith([uState EXCEPT !.browser = "closed"], "ok")}
                            \cup GoldenPathExcept(uState)
                       [] how = "not_passed" ->
                            {LeaveWith([uState EXCEPT !.browser = "closed"], "fail")}
                            \cup GoldenPathExcept(uState)
                       [] OTHER -> GoldenPathExcept(uState)
    /\ UNCHANGED <<uArgs, sysVars>>

\* AgentValidator.validate, lines 35-50, and run_task's env.reset: the
\* browser start raises; or LocalWebServer.start starts the server, or
\* fails to (it catches the exception and is not running); then page.goto
\* or the first observation may raise. Every exception is caught by validate
\* (line 64) and leads to the finally clause.
AgentReset ==
    /\ uArgs.validator = "agent" /\ uState.pc = "call"
    /\ \E how \in {"start_error", "server_error", "goto_error", "ok"} :
         uState' = CASE how = "start_error" ->
                          [uState EXCEPT !.pc = "finally", !.outcome = "fail"]
                     [] how = "server_error" ->
                          [uState EXCEPT !.pc = "finally", !.outcome = "fail",
                                         !.browser = "open"]
                     [] how = "goto_error" ->
                          [uState EXCEPT !.pc = "finally", !.outcome = "fail",
                                         !.browser = "open", !.server = "running",
                                         !.started = TRUE]
                     [] OTHER ->
                          [uState EXCEPT !.pc = "loop", !.browser = "open",
                                         !.server = "running", !.started = TRUE]
    /\ UNCHANGED <<uArgs, sysVars>>

\* run_task, lines 37-58, one step under wait_for: the step is taken, or
\* the episode is done, or something raises or the timeout cancels the run.
AgentStep ==
    /\ uArgs.validator = "agent" /\ uState.pc = "loop"
    /\ \E how \in {"step", "finish", "stuck", "raise"} :
         /\ how = "step" => uState.i < uArgs.n
         /\ how = "stuck" => uState.i = uArgs.n
         /\ uState' = CASE how = "step" -> [uState EXCEPT !.i = @ + 1]
                        [] how = "finish" -> [uState EXCEPT !.pc = "finally", !.outcome = "ok"]
                        [] OTHER -> [uState EXCEPT !.pc = "finally", !.outcome = "fail"]
    /\ UNCHANGED <<uArgs, sysVars>>

\* validate, lines 67-69, and PlaywrightEnvironment.stop: the server is
\* stopped first; closing the browser may raise, and then validate raises.
AgentStop ==
    /\ uArgs.validator = "agent" /\ uState.pc = "finally"
    /\ \E closed \in BOOLEAN :
         uState' = [uState EXCEPT
                       !.pc = "done",
                       !.server = ServerExit(@, uState.outcome # "ok"),
                       !.browser = IF closed /\ @ = "open" THEN "closed" ELSE @,
                       !.outcome = IF closed \/ uState.browser = "none" THEN @ ELSE "raised"]
    /\ UNCHANGED <<uArgs, sysVars>>

SrvNext ==
    \/ ServerEnter \/ BrowserLaunch \/ IntegrationPage \/ IntegrationReturn
    \/ GoldenPathStep \/ GoldenPathReturn
    \/ AgentReset \/ AgentStep \/ AgentStop

InitServers == SrvInit /\ SysIdle

SpecServers == InitServers /\ [][SrvNext]_vars

(***************************************************************************)
(* SelectorRegistry.validate_html and GenerationPhase._save_pages          *)
(***************************************************************************)

\* get_page_selectors(page)
GetPageSelectors(byPage, page) == PageList(byPage, page) \o PageList(byPage, GlobalPage)

\* validate_html(html_content, page): the expected selectors for whose name
\* neither the text id="name" nor id='name' occurs in the markup. The markup
\* is given by the set of the names for which one of the texts occurs.
ValidateHtml(html_content, byPage, page) ==
    SelectSeq(GetPageSelectors(byPage, page), LAMBDA selector : Tail(selector) \notin html_content)

\* filename.endswith(".html") and is not "__raw__"
IsPageFile(filename) ==
    filename # <<"__raw__">> /\ filename # <<>> /\ filename[Len(filename)] = ".html"

\* The page a file holds: the file name without ".html".
PageOf(filename) == SubSeq(filename, 1, Len(filename) - 1)

\* _save_pages(context, pages), lines 420-429: every page file of the
\* answer is stored, as it is.
SavePagesResult(generated_pages, pages) ==
    [f \in DOMAIN generated_pages \cup {g \in DOMAIN pages : IsPageFile(g)} |->
        IF f \in DOMAIN pages THEN pages[f] ELSE generated_pages[f]]

MaxSavePagesCalls == 2

PgSelectors == {FullSelector("button", <<"a">>), FullSelector("link", <<"b">>)}
PgMarkups == SUBSET {Tail(s) : s \in PgSelectors}
PgFiles == {<<"p", ".html">>, <<"q", ".html">>, <<"__raw__">>}

\* A registry with selectors for the page "p" and global ones.
PgInit ==
    /\ uArgs \in [by_page : [{<<"p">>, GlobalPage} -> SeqUpTo(PgSelectors, 1)]]
    /\ uState = [pc |-> "pages", calls |-> 0, generated_pages |-> <<>>]

\* _process_task, lines 185-190: implement_task_view answers with a dict of
\* pages, or with None or something that is no dict, and _save_pages is
\* called with the answer.
SavePages ==
    /\ uState.pc = "pages" /\ uState.calls < MaxSavePagesCalls
    /\ \E isDict \in BOOLEAN, D \in SUBSET PgFiles :
         \E pages \in [D -> PgMarkups] :
            uState' = [uState EXCEPT
                          !.calls = @ + 1,
                          !.generated_pages =
                              IF isDict /\ D # {} THEN SavePagesResult(@, pages) ELSE @]
    /\ UNCHANGED <<uArgs, sysVars>>

InitPages == PgInit /\ SysIdle

SpecPages == InitPages /\ [][SavePages]_vars

(***************************************************************************)
(* BackendValidator.validate                                               *)
(***************************************************************************)

\* BackendValidator.__init__: node_timeout, in seconds.
NodeTimeout == 300

\* The seconds "node backend_tests.js" takes: a "slow" test file runs longer
\* than any timeout, the others end at once.
Duration(tests) == IF tests = "slow" THEN NodeTimeout + 1 ELSE 1

\* validate(output_dir) in an environment: the two files of the directory
\* and whether node is installed. The result is (success, error_message).
\* What the node process reports is taken as a function of the two files:
\* the test program is generated, not part of the repository.
Validate(env, node_timeout) ==
    IF env.logic = NoFile THEN <<FALSE, <<"Missing", "logic.js">>>>
    ELSE IF env.tests = NoFile THEN <<FALSE, <<"Missing", "backend_tests.js">>>>
    ELSE IF ~env.node THEN <<FALSE, <<"Node.js", "not", "found">>>>
    ELSE IF Duration(env.tests) > node_timeout THEN <<FALSE, <<"Test", "timeout", "exceeded">>>>
    ELSE LET r == NodeRun(env.logic, IF env.tests = "slow" THEN "text" ELSE env.tests)
         IN  IF r = Pass THEN <<TRUE, <<>>>> ELSE <<FALSE, r>>

\* Mutant: validate removes the test file it has run.
EnvAfterValidateCleans(env) == [env EXCEPT !.tests = NoFile]

\* validate writes no file and keeps no state: the environment after the
\* call is the environment before it.
EnvAfterValidate(env) == env

MaxValidateCalls == 2
MaxEnvChanges == 1

BvEnvs == [logic : {NoFile, "good", "buggy"}, tests : {NoFile, "", "text", "slow"},
           node : BOOLEAN]

\* epoch counts the changes of the environment made from outside.
BvInit ==
    /\ uArgs \in [node_timeout : {NodeTimeout}]
    /\ uState \in [env : BvEnvs, epoch : {0}, results : {<<>>}]

BvValidate ==
    /\ Len(uState.results) < MaxValidateCalls
    /\ uState' = [uState EXCEPT
                     !.results = Append(@, [epoch |-> uState.epoch,
                                            out |-> Validate(uState.env, uArgs.node_timeout)]),
                     !.env = EnvAfterValidate(@)]
    /\ UNCHANGED <<uArgs, sysVars>>

\* Something other than the validator changes a file or node.
BvEnvChange ==
    /\ uState.epoch < MaxEnvChanges
    /\ \E e \in BvEnvs \ {uState.env} :
         uState' = [uState EXCEPT !.env = e, !.epoch = @ + 1]
    /\ UNCHANGED <<uArgs, sysVars>>

BvNext == BvValidate \/ BvEnvChange

InitBackend == BvInit /\ SysIdle

SpecBackend == InitBackend /\ [][BvNext]_vars

(***************************************************************************)
(* PlaywrightEnvironment.step                                              *)
(***************************************************************************)

\* Rewards are in tenths: 10 is the reward 1.0 of line 99.
FullReward == 10

ActionTypes == {"click", "type", "scroll", "navigate", "select", "wait", "finish", "fail"}

\* What the evaluator meets for a task: no evaluator.js, an exception of
\* page.evaluate, a result that is no dict, a dict without the task, a
\* number for the task, or a value float() does not take (truthy or falsy).
EvalCases ==
    [kind : {"no_script", "exception", "not_dict", "missing", "truthy", "falsy"}, value : {0}]
    \cup [kind : {"score"}, value : {0, 5, FullReward, FullReward + 5}]

\* WebEvaluator.evaluate_task
EvaluateTask(case) ==
    CASE case.kind = "score"  -> case.value
      [] case.kind = "truthy" -> FullReward
      [] OTHER                -> 0

\* Mutant: only the evaluator ends the episode.
StepDoneRewardOnly(type, reward) == reward >= FullReward

\* step, line 99
StepDone(type, reward) == type \in {"finish", "fail"} \/ reward >= FullReward

EnvInit ==
    /\ uArgs \in [type : ActionTypes, eval : EvalCases, page : BOOLEAN,
                  evaluator : BOOLEAN, current_task : BOOLEAN]
    /\ uState = [pc |-> "call", reward |-> 0, done |-> FALSE]

\* step(action), lines 78-102: without a page it raises; the execution of
\* the action or the wait for the network may raise; otherwise the reward
\* is read from the evaluator, if there is one and a current task, and
\* (obs, reward, done, info) is returned.
EnvStep ==
    /\ uState.pc = "call"
    /\ \E raises \in BOOLEAN :
         IF ~uArgs.page \/ raises
           THEN uState' = [uState EXCEPT !.pc = "raised"]
           ELSE LET reward == IF uArgs.evaluator /\ uArgs.current_task
                                THEN EvaluateTask(uArgs.eval) ELSE 0
                IN  uState' = [pc |-> "returned", reward |-> reward,
                               done |-> StepDone(uArgs.type, reward)]
    /\ UNCHANGED <<uArgs, sysVars>>

InitEnvStep == EnvInit /\ SysIdle

SpecEnvStep == InitEnvStep /\ [][EnvStep]_vars

(***************************************************************************)
(* GenerationPhase._verify_task, one call                                  *)
(***************************************************************************)

VtScripts == {NoFile, "", "short", "base", "template", "good", "buggy", "nomark"}

VtInit ==
    /\ uArgs \in [logic : VtScripts, tests : {"", "text"}, llm : BOOLEAN]
    /\ uState = [pc |-> "call", result |-> VerifyResult(FALSE, <<>>, {}, FALSE, FALSE, <<>>)]

\* _verify_task(context, task, test_code, registry)
VtVerifyTask ==
    /\ uState.pc = "call"
    /\ \E r \in VerifyTask(uArgs.logic, uArgs.tests, uArgs.llm) :
         uState' = [pc |-> "returned", result |-> r]
    /\ UNCHANGED <<uArgs, sysVars>>

InitVerifyTask == VtInit /\ SysIdle

SpecVerifyTask == InitVerifyTask /\ [][VtVerifyTask]_vars

(***************************************************************************)
(* GoldenPathValidator.execute_path                                        *)
(***************************************************************************)

MaxPathSteps == 2

\* The href of an anchor selector a[href='...']: with or without a scheme,
\* its path, and what follows the path (a fragment), as urlparse splits it.
EpHrefs ==
    {[scheme |-> FALSE, path |-> <<"index.html">>, rest |-> <<>>],
     [scheme |-> FALSE, path |-> <<"index.html">>, rest |-> <<"#top">>],
     [scheme |-> FALSE, path |-> <<"detail.html">>, rest |-> <<>>],
     [scheme |-> TRUE,  path |-> <<"/", "index.html">>, rest |-> <<>>],
     [scheme |-> TRUE,  path |-> <<"/", "product_", "detail.html">>, rest |-> <<>>]}

NoHref == [scheme |-> FALSE, path |-> <<>>, rest |-> <<>>]

\* The selectors of a step: none, an id, or an anchor with an href.
EpSelectors ==
    {[kind |-> "none", href |-> NoHref], [kind |-> "id", href |-> NoHref]}
    \cup {[kind |-> "anchor", href |-> h] : h \in EpHrefs}

EpSteps == [action : {"click", "type"}, selector : EpSelectors]

\* The paths of the pages the file server has.
EpPaths == {<<"/", "index.html">>, <<"/", "product_", "detail.html">>}

\* The text of the href: group(1) of the match of line 333.
TargetPage(h) == h.path \o h.rest

\* The path of the page the href leads to from a page of the server's root
\* directory: its own path if it has a scheme, else the path joined to the
\* root; the fragment does not name another page.
ResolvedPath(h) == IF h.scheme THEN h.path ELSE <<"/">> \o h.path

\* The step is a navigation to the page that is current.
NavigatesToCurrent(step, current_path) ==
    /\ step.action = "click" /\ step.selector.kind = "anchor"
    /\ ResolvedPath(step.selector.href) = current_path

\* execute_path, lines 327-350: the test the code makes for a step whose
\* element was not found. "target_page in current_path" is the occurrence of
\* the href text in the path; endswith adds nothing to it.
SkipsStep(step, current_path) ==
    /\ step.action = "click" /\ step.selector.kind # "none"
    /\ step.selector.kind = "anchor"
    /\ IF ~step.selector.href.scheme
         THEN Contains(current_path, TargetPage(step.selector.href))
         ELSE current_path = step.selector.href.path

\* What page.evaluate gives for the evaluator: None, a dict, or an exception.
EpEvalResults == {"none", "not_passed", "passed", "exception"}

\* execute_path, line 366: the evaluator is run if the code is not blank.
EvaluatorGiven(evaluator_code) == evaluator_code \notin {None, "", "blank"}

EpState(pc, i, current, found, success, error, evaluated, result) ==
    [pc |-> pc, i |-> i, current |-> current, found |-> found, success |-> success,
     error |-> error, evaluated |-> evaluated, result |-> result]

EpInit ==
    /\ uArgs \in [steps : SeqUpTo(EpSteps, MaxPathSteps),
                   evaluator_code : {None, "", "blank", "code"}]
    /\ uState = EpState("goto", 1, <<>>, TRUE, FALSE, "", FALSE, "none")

EpReturn(st, success, error) == [st EXCEPT !.pc = "returned", !.success = success,
                                           !.error = error]

\* lines 280-282: the start page is opened; an exception of goto is
\* caught at line 382.
EpGoto ==
    /\ uState.pc = "goto"
    /\ \E raises \in BOOLEAN :
         uState' = IF raises THEN EpReturn(uState, FALSE, "Execution error")
                   ELSE [uState EXCEPT !.pc = "steps", !.current = <<"/", "index.html">>]
    /\ UNCHANGED <<uArgs, sysVars>>

\* lines 310-363, one pass of the loop. The markup is not modelled: whether
\* the element is found is free. With no selector, sel.startswith raises
\* outside the inner try. A click may load another page.
EpStep ==
    /\ uState.pc = "steps" /\ uState.i <= Len(uArgs.steps)
    /\ LET step == uArgs.steps[uState.i]
       IN  \E found \in BOOLEAN, raises \in BOOLEAN, next \in EpPaths :
             LET st == [uState EXCEPT !.found = found /\ step.selector.kind # "none"]
             IN  uState' =
                   IF step.selector.kind = "none" \/ (found /\ raises)
                     THEN EpReturn(st, FALSE, "Execution error")
                   ELSE IF ~found
                     THEN IF SkipsStep(step, uState.current)
                            THEN [st EXCEPT !.i = @ + 1]
                            ELSE EpReturn(st, FALSE, "Element not found")
                   ELSE [st EXCEPT !.i = @ + 1,
                                   !.current = IF step.action = "click" THEN next ELSE @]
    /\ UNCHANGED <<uArgs, sysVars>>

\* lines 365-380: after the steps the evaluator is run, if one was given,
\* with the task id; without one the path has succeeded.
EpEvaluate ==
    /\ uState.pc = "steps" /\ uState.i > Len(uArgs.steps)
    /\ IF EvaluatorGiven(uArgs.evaluator_code)
         THEN \E result \in EpEvalResults :
                LET st == [uState EXCEPT !.evaluated = TRUE, !.result = result]
                IN  uState' = CASE result = "exception" -> EpReturn(st, FALSE, "Execution error")
                                [] result = "passed"    -> EpReturn(st, TRUE, "")
                                [] OTHER                -> EpReturn(st, FALSE, "Evaluator failed")
         ELSE uState' = EpReturn(uState, TRUE, "")
    /\ UNCHANGED <<uArgs, sysVars>>

EpNext == EpGoto \/ EpStep \/ EpEvaluate

InitExecutePath == EpInit /\ SysIdle

SpecExecutePath == InitExecutePath /\ [][EpNext]_vars

(***************************************************************************)
(* GoldenPathValidator.extract_selectors                                   *)
(***************************************************************************)

MaxTags == 3
MaxSelectorsBound == 3

\* An interactive tag of the markup: its id, data-testid and first
\* meaningful class (0: none; the numbers stand for texts, in alphabetical
\* order) and whether it is hidden.
EsTags ==
    {t \in [id : 0..2, testid : 0..1, cls : 0..1, hidden : BOOLEAN] :
        t.hidden => (t.id = 1 /\ t.testid = 0 /\ t.cls = 0)}

EsSelector(kind, name) == [kind |-> kind, name |-> name]

\* extract_selectors, lines 50-72: the selectors one tag gives.
TagSelectors(tag) ==
    IF tag.hidden THEN {}
    ELSE IF tag.id # 0 THEN {EsSelector("id", tag.id)}
    ELSE IF tag.testid # 0 THEN {EsSelector("testid", tag.testid)}
    ELSE IF tag.cls # 0 THEN {EsSelector("class", tag.cls)}
    ELSE {}

\* The order of sorted() on the texts: "#" is before "." and "." before "[".
SelectorRank(s) ==
    (CASE s.kind = "id" -> 0 [] s.kind = "class" -> 10 [] OTHER -> 20) + s.name

RECURSIVE Sorted(_)
\* sorted(set(selectors))
Sorted(set) ==
    IF set = {} THEN <<>>
    ELSE LET first == CHOOSE s \in set : \A o \in set : SelectorRank(s) <= SelectorRank(o)
         IN  <<first>> \o Sorted(set \ {first})

\* seq[:n] for n >= 0
Take(seq, n) == SubSeq(seq, 1, IF n < Len(seq) THEN n ELSE Len(seq))

Max0(n) == IF n > 0 THEN n ELSE 0

\* s.startswith('#')
IsIdSelector(s) == s.kind = "id"

\* Mutant: the other selectors are taken first.
PrioritizeOthers(ids, others, max_selectors) ==
    Take(others, max_selectors) \o Take(ids, Max0(max_selectors - Len(others)))

\* extract_selectors, lines 82-83
PrioritizeIds(ids, others, max_selectors) ==
    Take(ids, max_selectors) \o Take(others, Max0(max_selectors - Len(ids)))

\* extract_selectors, lines 75-86
ExtractSelectors(tags, max_selectors) ==
    LET selectors == Sorted(UNION {TagSelectors(tags[i]) : i \in 1..Len(tags)})
    IN  IF Len(selectors) > max_selectors
          THEN LET ids == SelectSeq(selectors, LAMBDA s : IsIdSelector(s))
                   others == SelectSeq(selectors, LAMBDA s : ~IsIdSelector(s))
               IN  Take(PrioritizeIds(ids, others, max_selectors), max_selectors)
          ELSE selectors

EsInit ==
    /\ uArgs \in [tags : SeqUpTo(EsTags, MaxTags), max_selectors : 0..MaxSelectorsBound]
    /\ uState = [pc |-> "call", selectors |-> <<>>]

\* extract_selectors(html_content); an exception of the parser gives [].
EsExtract ==
    /\ uState.pc = "call"
    /\ \E raises \in BOOLEAN :
         uState' = [pc |-> "returned",
                    selectors |-> IF raises THEN <<>>
                                  ELSE ExtractSelectors(uArgs.tags, uArgs.max_selectors)]
    /\ UNCHANGED <<uArgs, sysVars>>

InitExtract == EsInit /\ SysIdle

SpecExtract == InitExtract /\ [][EsExtract]_vars

(***************************************************************************)
(* SelectorRegistry.validate_html on the text of the markup                *)
(***************************************************************************)

MaxAttrs == 2

\* An attribute as it is written in the markup: its name, its value and
\* the quotes around the value.
VhAttrs == [name : {"id", "data-id"}, value : {Tail(s) : s \in PgSelectors},
            quote : {"double", "single", "none"}]

\* The names v for which id="v" or id='v' occurs in the text: the test of
\* line 131 finds the text at the end of any attribute name, and only with
\* quotes.
IdTextOccurrences(markup) ==
    {markup[i].value : i \in {j \in 1..Len(markup) : markup[j].quote # "none"}}

\* The values of the id attributes of the markup.
IdAttributes(markup) ==
    {markup[i].value : i \in {j \in 1..Len(markup) : markup[j].name = "id"}}

VhInit ==
    /\ uArgs \in [by_page : [{<<"p">>, GlobalPage} -> SeqUpTo(PgSelectors, 1)],
                   html_content : SeqUpTo(VhAttrs, MaxAttrs),
                   page : {<<"p">>, <<"q">>, GlobalPage}]
    /\ uState = [pc |-> "call", missing |-> <<>>]

\* validate_html(html_content, page)
VhValidateHtml ==
    /\ uState.pc = "call"
    /\ uState' = [pc |-> "returned",
                  missing |-> ValidateHtml(IdTextOccurrences(uArgs.html_content),
                                           uArgs.by_page, uArgs.page)]
    /\ UNCHANGED <<uArgs, sysVars>>

InitValidateHtml == VhInit /\ SysIdle

SpecValidateHtml == InitValidateHtml /\ [][VhValidateHtml]_vars

(***************************************************************************)
(* IntegrationValidator.validate_all_pages                                 *)
(***************************************************************************)

MaxPages == 3

\* on_console, lines 214-221
NonCriticalPatterns ==
    {<<"favicon.ico">>, <<"404">>, <<".jpg">>, <<".jpeg">>, <<".png">>, <<".gif">>,
     <<".svg">>, <<".webp">>, <<".css">>, <<".woff">>, <<".woff2">>, <<".ttf">>,
     <<".eot">>, <<".mp3">>, <<".mp4">>, <<".wav">>, <<".ogg">>}

\* What the browser reports while a page loads: nothing, a console error
\* (the text of a failed load is the same for every resource; the resource
\* is named beside the text), an uncaught exception, or a failed goto.
IvEvents ==
    {[kind |-> "none", resource |-> "none", text |-> <<>>],
     [kind |-> "console", resource |-> "image",
      text |-> <<"Failed", "to", "load", "resource", "404">>],
     [kind |-> "console", resource |-> "script",
      text |-> <<"Failed", "to", "load", "resource", "404">>],
     [kind |-> "console", resource |-> "none", text |-> <<"Uncaught", "x">>],
     [kind |-> "pageerror", resource |-> "none", text |-> <<"TypeError">>],
     [kind |-> "navigation", resource |-> "none", text |-> <<"Timeout">>]}

\* The pages of the batch: whether the file exists and what loading it
\* reports.
IvPages ==
    {p \in [exists : BOOLEAN, event : IvEvents] : ~p.exists => p.event.kind = "none"}

\* page_files[i]
PageFile(i) == "page" \o ToString(i)

\* lines 211-234: the errors the page adds to page_errors.
PageErrors(event) ==
    CASE event.kind = "console" ->
            IF AnyIn(event.text, NonCriticalPatterns) THEN <<>>
            ELSE <<(<<"Console", "error">> \o event.text)>>
      [] event.kind = "pageerror"  -> <<(<<"Page", "error">> \o event.text)>>
      [] event.kind = "navigation" -> <<(<<"Navigation", "error">> \o event.text)>>
      [] OTHER -> <<>>

\* f"[{page_file}] {e}"
Prefixed(page_file, e) == <<"[", page_file, "]">> \o e

\* lines 203-240, what one page adds to all_errors
AllErrorsAfter(all_errors, i, page) ==
    IF ~page.exists THEN Append(all_errors, Prefixed(PageFile(i), <<"Page", "not", "found">>))
    ELSE all_errors \o [k \in 1..Len(PageErrors(page.event)) |->
                            Prefixed(PageFile(i), PageErrors(page.event)[k])]

IvState(pc, i, servers, running, visited, all_errors, success) ==
    [pc |-> pc, i |-> i, servers |-> servers, running |-> running, visited |-> visited,
     all_errors |-> all_errors, success |-> success]

IvInit ==
    /\ uArgs \in [page_files : SeqUpTo(IvPages, MaxPages)]
    /\ uState = IvState("call", 1, 0, FALSE, {}, <<>>, FALSE)

\* lines 198-201: the server is started and the browser launched; an
\* exception of the launch leaves the call, the server closed.
IvEnter ==
    /\ uState.pc = "call"
    /\ \E raises \in BOOLEAN :
         uState' = IF raises
                     THEN [uState EXCEPT !.pc = "raised", !.servers = @ + 1]
                     ELSE [uState EXCEPT !.pc = "pages", !.servers = @ + 1,
                                         !.running = TRUE]
    /\ UNCHANGED <<uArgs, sysVars>>

\* lines 203-240, one pass of the loop; new_page may raise.
IvPage ==
    /\ uState.pc = "pages" /\ uState.i <= Len(uArgs.page_files)
    /\ \E raises \in BOOLEAN :
         LET page == uArgs.page_files[uState.i]
         IN  uState' =
               IF raises /\ page.exists
                 THEN [uState EXCEPT !.pc = "raised", !.running = FALSE]
                 ELSE [uState EXCEPT !.i = @ + 1, !.visited = @ \cup {uState.i},
                          !.all_errors = AllErrorsAfter(@, uState.i, page)]
    /\ UNCHANGED <<uArgs, sysVars>>

\* lines 242-245
IvReturn ==
    /\ uState.pc = "pages" /\ uState.i > Len(uArgs.page_files)
    /\ uState' = [uState EXCEPT !.pc = "returned", !.running = FALSE,
                                !.success = Len(uState.all_errors) = 0]
    /\ UNCHANGED <<uArgs, sysVars>>

IvNext == IvEnter \/ IvPage \/ IvReturn

InitIntegration == IvInit /\ SysIdle

SpecIntegration == InitIntegration /\ [][IvNext]_vars

(***************************************************************************)
(* _verify_with_fixes over BackendValidator.validate                       *)
(***************************************************************************)

\* Mutant: TimeoutExpired is not caught and leaves validate.
OnTimeoutRaise == "raised"

\* validate, lines 53-54: "except subprocess.TimeoutExpired: return False, ..."
OnTimeout == "returned"

\* The node process is started and runs longer than node_timeout.
TimesOut(env, node_timeout) ==
    /\ env.logic # NoFile /\ env.tests # NoFile /\ env.node
    /\ Duration(env.tests) > node_timeout

VlState(pc, attempt, error, branch, env) ==
    [pc |-> pc, attempt |-> attempt, error |-> error, branch |-> branch, env |-> env]

VlInit ==
    /\ uArgs \in [node_timeout : {NodeTimeout}, env : BvEnvs]
    /\ uState = VlState("verify", 0, <<>>, "none", uArgs.env)

\* _verify_with_fixes, lines 217-230, one pass of the loop up to the fix,
\* with _verify_task, lines 262-273: the backend validator, then the later
\* validators, whose result is free. An exception of a validator leaves
\* _process_task and execute logs the task as failed.
VlVerify ==
    /\ uState.pc = "verify"
    /\ LET out == Validate(uState.env, uArgs.node_timeout)
           retry(error) == [uState EXCEPT
                               !.pc = IF uState.attempt < MaxFixRetries - 1
                                        THEN "fix" ELSE "failed",
                               !.error = error]
       IN  IF TimesOut(uState.env, uArgs.node_timeout) /\ OnTimeout = "raised"
             THEN uState' = [uState EXCEPT !.pc = "failed"]
           ELSE IF ~out[1]
             THEN uState' = retry(<<"Backend">> \o out[2])
           ELSE \/ uState' = [uState EXCEPT !.pc = "done"]
                \/ \E e \in IntegrationErrors : uState' = retry(<<"Integration">> \o e)
    /\ UNCHANGED <<uArgs, sysVars>>

\* _apply_fix and the return to the loop: the fix may change logic.js; the
\* frontend branch raises NameError for the texts it acts on.
VlFix ==
    /\ uState.pc = "fix"
    /\ LET branch == FixBranch(uState.error, uState.attempt)
       IN  IF /\ branch = "frontend"
              /\ AnyIn(uState.error, {<<"Element", "not", "found">>, <<"CSS">>, <<"Timeout">>})
             THEN uState' = [uState EXCEPT !.pc = "failed", !.branch = branch]
             ELSE \E logic \in {uState.env.logic, "good", "buggy"} :
                    uState' = [uState EXCEPT !.pc = AfterFix, !.attempt = @ + 1,
                                             !.branch = branch,
                                             !.env = [@ EXCEPT !.logic =
                                                        IF @ = NoFile \/ branch = "frontend"
                                                          THEN @ ELSE logic]]
    /\ UNCHANGED <<uArgs, sysVars>>

VlNext == VlVerify \/ VlFix

InitVerifyLoop == VlInit /\ SysIdle

SpecVerifyLoop == InitVerifyLoop /\ [][VlNext]_vars

(***************************************************************************)
(* _run_throttled                                                          *)
(***************************************************************************)

MaxConcurrencyBound == 2
NumCallers == 3
MaxThrottledCalls == 2

\* The coroutines that call _run_throttled of one phase.
Callers == 1..NumCallers

\* Mutant: the permit is given back only when the call returns.
ReleasedOnReturnOnly(value, raised) == IF raised THEN value ELSE value + 1

\* "async with self.semaphore": __aexit__ releases the permit, whether the
\* body returned or raised.
ReleasedValue(value, raised) == value + 1

\* __init__, line 40: asyncio.Semaphore(config.max_concurrency)
LimInit ==
    /\ uArgs \in [max_concurrency : 1..MaxConcurrencyBound]
    /\ uState = [value |-> uArgs.max_concurrency,
                 pc |-> [c \in Callers |-> "idle"],
                 calls |-> [c \in Callers |-> 0],
                 last |-> [c \in Callers |-> "none"]]

\* _run_throttled, line 535: the permit is taken when one is free, else the
\* caller waits; then func runs in a thread.
LimAcquire(c) ==
    /\ uState.pc[c] = "idle" /\ uState.calls[c] < MaxThrottledCalls
    /\ uState.value > 0
    /\ uState' = [uState EXCEPT !.value = @ - 1, !.pc[c] = "running", !.calls[c] = @ + 1]
    /\ UNCHANGED <<uArgs, sysVars>>

\* _run_throttled, lines 535-536: func returns or raises and the block is left.
LimLeave(c) ==
    /\ uState.pc[c] = "running"
    /\ \E raised \in BOOLEAN :
         uState' = [uState EXCEPT !.value = ReleasedValue(@, raised), !.pc[c] = "idle",
                                  !.last[c] = IF raised THEN "raised" ELSE "returned"]
    /\ UNCHANGED <<uArgs, sysVars>>

LimNext == \E c \in Callers : LimAcquire(c) \/ LimLeave(c)

InitLimiter == LimInit /\ SysIdle

SpecLimiter == InitLimiter /\ [][LimNext]_vars

(***************************************************************************)
(* GoldenPathValidator._validate_steps on whole steps                      *)
(***************************************************************************)

MaxRepairSteps == 2

\* Mutant: a step whose selector finds no replacement is left out.
DroppedWhenUnmatched(step) == <<>>

\* _validate_steps, lines 173-177, the else of the for loop:
\* corrected_steps.append(step)
KeptWhenUnmatched(step) == <<step>>

\* _validate_steps, lines 151-177: what one step adds to corrected_steps.
\* The selector is replaced in the step itself (step["selector"] = valid).
StepResult(step, valid_selectors) ==
    LET selector == step.selector
        kept == ValidateStep(selector, valid_selectors)
    IN  IF selector = NoSelector \/ InSeq(selector, valid_selectors) THEN <<step>>
        ELSE IF kept # selector THEN <<[step EXCEPT !.selector = kept]>>
        ELSE KeptWhenUnmatched(step)

RECURSIVE CorrectedSteps(_, _)
\* _validate_steps, lines 148-179: the loop over the steps.
CorrectedSteps(steps, valid_selectors) ==
    IF steps = <<>> THEN <<>>
    ELSE StepResult(Head(steps), valid_selectors)
            \o CorrectedSteps(Tail(steps), valid_selectors)

\* The steps of an answer: the action, the selector, perhaps none, and the
\* value to type.
RpSteps ==
    [action : {"click", "type"},
     selector : {NoSelector, <<"#", "title">>, <<".", "title">>, <<"#", "task-", "title">>},
     value : {"", "v"}]

RpInit ==
    /\ uArgs \in [steps : SeqUpTo(RpSteps, MaxRepairSteps),
                   valid_selectors : SeqUpTo({<<"#", "task-", "title">>, <<".", "title">>},
                                             MaxValidSelectors)]
    /\ uState = [pc |-> "call", is_valid |-> FALSE, steps |-> <<>>]

\* _validate_steps(steps, valid_selectors)
RpValidateSteps ==
    /\ uState.pc = "call"
    /\ uState' = [pc |-> "done", is_valid |-> TRUE,
                  steps |-> CorrectedSteps(uArgs.steps, uArgs.valid_selectors)]
    /\ UNCHANGED <<uArgs, sysVars>>

InitRepairPass == RpInit /\ SysIdle

SpecRepairPass == InitRepairPass /\ [][RpValidateSteps]_vars

(***************************************************************************)
(* AgentRunner.run_task                                                    *)
(***************************************************************************)

MaxStepsBound == 3

\* Mutant: the loop goes on after a step that is done.
LeavesLoopNever(done) == FALSE

\* run_task, lines 52-55: "if done: ... break"
LeavesLoop(done) == done

\* asked: the calls of agent.decide; executed: the calls of env.step that
\* returned; recorded: the records of the trajectory; history: the actions
\* of the list; after_done: the actions executed after a step that was done.
ArInit ==
    /\ uArgs \in [max_steps : 0..MaxStepsBound]
    /\ uState = [pc |-> "loop", asked |-> 0, executed |-> 0, recorded |-> 0,
                 history |-> 0, done |-> FALSE, after_done |-> 0, success |-> FALSE,
                 type |-> "none", steps |-> 0]

\* run_task, lines 35-55, one pass of the loop: the agent decides, the
\* environment steps, the recorder records, the action joins the history.
\* An exception of any of them leaves run_task.
ArStep ==
    /\ uState.pc = "loop" /\ uState.asked < uArgs.max_steps
    /\ \E type \in ActionTypes, eval \in {c \in EvalCases : c.kind = "score"},
          raises \in {"none", "decide", "step", "record"} :
         LET done == StepDone(type, EvaluateTask(eval))
             asked == [uState EXCEPT !.asked = @ + 1]
         IN  uState' =
               CASE raises = "decide" -> [asked EXCEPT !.pc = "raised"]
                 [] raises = "step"   -> [asked EXCEPT !.pc = "raised", !.type = type]
                 [] raises = "record" -> [asked EXCEPT !.pc = "raised", !.type = type,
                                                       !.executed = @ + 1]
                 [] OTHER ->
                      [asked EXCEPT !.type = type,
                                    !.executed = @ + 1, !.recorded = @ + 1,
                                    !.history = @ + 1,
                                    !.after_done = IF uState.done THEN @ + 1 ELSE @,
                                    !.done = @ \/ done,
                                    !.success = @ \/ (done /\ type = "finish"),
                                    !.pc = IF LeavesLoop(done) THEN "finalize" ELSE "loop"]
    /\ UNCHANGED <<uArgs, sysVars>>

\* run_task, lines 57-64: after the loop the trajectory is closed and the
\* result returned, steps = len(history).
ArFinalize ==
    /\ \/ uState.pc = "finalize"
       \/ uState.pc = "loop" /\ uState.asked >= uArgs.max_steps
    /\ uState' = [uState EXCEPT !.pc = "returned", !.steps = uState.history]
    /\ UNCHANGED <<uArgs, sysVars>>

ArNext == ArStep \/ ArFinalize

InitRunner == ArInit /\ SysIdle

SpecRunner == InitRunner /\ [][ArNext]_vars

(***************************************************************************)
(* PlaywrightEnvironment.reset and .stop over LocalWebServer               *)
(***************************************************************************)

MaxResets == 3

MaxStops == 2

\* Mutant: reset leaves the previous server as it is.
KeepPrevious(servers, server) == servers

\* reset, lines 65-66, and stop, lines 47-48: "if self.server:
\* self.server.stop()"; LocalWebServer.stop shuts a running server down.
StopPrevious(servers, server) ==
    IF server = 0 THEN servers
    ELSE [servers EXCEPT ![server] = ServerExit(@, FALSE)]

RunningServers(servers) == {i \in DOMAIN servers : servers[i] = "running"}

\* servers: the LocalWebServer objects the environment has made, each
\* "none" (start failed, no socket), "running" or "closed"; server: the
\* index of self.server, 0 for None; pw: self.pw is set; overlap: a server
\* was started while an earlier one was running.
PwInit ==
    /\ uArgs = [resets |-> MaxResets, stops |-> MaxStops]
    /\ uState = [servers |-> <<>>, server |-> 0, pw |-> FALSE, overlap |-> FALSE,
                 stops |-> 0, last |-> "none", outcome |-> "none"]

\* reset, lines 57-76: the browser start raises before the server is
\* touched (self.pw may be set by then); or the previous server is stopped
\* and a new one made and started, which fails to start (then self.server.url
\* raises), or starts, after which page.goto or the observation may raise.
PwReset ==
    /\ Len(uState.servers) < uArgs.resets
    /\ \E how \in {"start_error", "server_error", "goto_error", "ok"}, pw \in BOOLEAN :
         /\ how = "start_error" => ~uState.pw
         /\ how # "start_error" => pw
         /\ uState' =
              IF how = "start_error"
                THEN [uState EXCEPT !.pw = pw, !.last = "reset", !.outcome = "raised"]
                ELSE LET stopped == StopPrevious(uState.servers, uState.server)
                         new == IF how = "server_error" THEN "none" ELSE "running"
                     IN  [uState EXCEPT
                            !.servers = Append(stopped, new),
                            !.server = Len(stopped) + 1,
                            !.pw = TRUE,
                            !.overlap = @ \/ (new = "running" /\ RunningServers(stopped) # {}),
                            !.last = "reset",
                            !.outcome = IF how = "ok" THEN "returned" ELSE "raised"]
    /\ UNCHANGED <<uArgs, sysVars>>

\* stop, lines 45-55: the server is stopped first; closing the context or
\* the browser may raise, and then self.pw stays set.
PwStop ==
    /\ uState.stops < uArgs.stops
    /\ \E closed \in BOOLEAN :
         uState' = [uState EXCEPT
                      !.servers = StopPrevious(@, uState.server),
                      !.pw = IF closed THEN FALSE ELSE @,
                      !.stops = @ + 1,
                      !.last = "stop",
                      !.outcome = IF closed \/ ~uState.pw THEN "returned" ELSE "raised"]
    /\ UNCHANGED <<uArgs, sysVars>>

PwNext == PwReset \/ PwStop

InitEnvironment == PwInit /\ SysIdle

SpecEnvironment == InitEnvironment /\ [][PwNext]_vars

(***************************************************************************)
(* Specifications                                                          *)
(***************************************************************************)

InitClassify == ClsInit /\ RetryIdle /\ RegIdle /\ PipeIdle /\ UnitIdle

SpecClassify == InitClassify /\ [][Classify]_vars

RetryNext == RetryInvoke \/ RetryBackoff
InitRetry == RetryInit /\ ClsIdle /\ RegIdle /\ PipeIdle /\ UnitIdle

SpecRetry == InitRetry /\ [][RetryNext]_vars

Init == PipeInit /\ ClsIdle /\ RetryIdle /\ RegIdle /\ UnitIdle

TaskStep(t) ==
    \/ TaskTests(t) \/ TaskPlan(t) \/ TaskPrecheck(t) \/ TaskImplement(t)
    \/ TaskInstrument(t) \/ TaskFrontend(t) \/ TaskVerify(t) \/ TaskFix(t)

Next ==
    \/ Restore \/ Planning \/ GenerationStart
    \/ \E t \in Tasks : TaskStep(t)
    \/ GenerationReturn \/ VerificationExecute \/ Rerun

Spec == Init /\ [][Next]_vars

\* The output directories one run is started on: an empty one, and one that
\* a run left with every file written, the script passing its tests or not.
RunDirs ==
    {EmptyDisk}
    \cup {[logic |-> l, tests |-> [t \in Tasks |-> "text"], plan |-> [t \in Tasks |-> "text"],
           interm |-> PlanningWritten(5), data |-> "full", pages |-> TRUE] :
              l \in {"good", "buggy"}}

RunInit ==
    /\ hasLlm \in BOOLEAN /\ runNo = 1 /\ phase = "restore"
    /\ disk \in RunDirs /\ backup = NoBackup /\ ctx = EmptyCtx
    /\ cur = 0 /\ tk = [t \in Tasks |-> NewTask]
    /\ calls = {} /\ events = {} /\ lastWriter = 0 /\ fixLog = NoFix
    /\ prevComplete = FALSE

InitRun == RunInit /\ ClsIdle /\ RetryIdle /\ RegIdle /\ UnitIdle

\* One call of run, from restore to its return or its exception.
NextRun ==
    \/ Restore \/ Planning \/ GenerationStart
    \/ \E t \in Tasks : TaskStep(t)
    \/ GenerationReturn \/ VerificationExecute

\* Every step the run is at is eventually taken: the calls it awaits return
\* or raise.
FairRun == InitRun /\ [][NextRun]_vars /\ WF_vars(NextRun)

InitRegistry == RegInit /\ ClsIdle /\ RetryIdle /\ PipeIdle /\ UnitIdle

SpecRegistry == InitRegistry /\ [][Register]_vars

(***************************************************************************)
(* Claims                                                                  *)
(***************************************************************************)

\* C7 as stated: every failure text containing "SyntaxError" is classified
\* Tier 1 and every text containing "Golden Path" or "Timeout" Tier 2.
C7_Original ==
    clsTier # 0 =>
        /\ (Contains(clsText, <<"SyntaxError">>) => clsTier = 1)
        /\ (AnyIn(clsText, {<<"Golden", "Path">>, <<"Timeout">>}) => clsTier = 2)

\* C7 amended: every failure text containing "SyntaxError" is classified
\* Tier 1; every text containing "Golden Path" or "Timeout" and none of the
\* Tier-1 patterns is classified Tier 2.
C7_ClassifierRouting ==
    clsTier # 0 =>
        /\ (Contains(clsText, <<"SyntaxError">>) => clsTier = 1)
        /\ (AnyIn(clsText, {<<"Golden", "Path">>, <<"Timeout">>})
              /\ ~AnyIn(clsText, Tier1Patterns) => clsTier = 2)

C7_Witness ==
    /\ clsTier = 2
    /\ Contains(clsText, <<"Golden", "Path">>)
    /\ Contains(clsText, <<"Timeout">>)

\* The wrapped function's invocations the wrapper may make: 1..max_retries+1.
RetryWindow == 1..(rtMax + 1)

\* C8 as stated: a wrapped call that on every attempt raises or returns an
\* empty or None result is invoked exactly max_retries+1 times and the
\* wrapper then reports failure (None).
C8_Original ==
    (rtPc = "done" /\ \A n \in RetryWindow : rtPlan[n] \in {Raise, None, EmptyStr})
        => (rtCalls = rtMax + 1 /\ rtResult = None)

\* C8 amended: a wrapped call that on every attempt raises or returns None
\* is invoked exactly max_retries+1 times and the wrapper then returns None;
\* the wrapper never invokes it more than max_retries+1 times.
C8_ExactAttempts ==
    /\ rtCalls <= rtMax + 1
    /\ (rtPc = "done" /\ \A n \in RetryWindow : rtPlan[n] \in {Raise, None})
          => (rtCalls = rtMax + 1 /\ rtResult = None)

C8_Witness ==
    /\ rtPc = "done" /\ rtMax >= 2
    /\ \A n \in RetryWindow : rtPlan[n] \in {Raise, None}
    /\ \E n \in RetryWindow : rtPlan[n] = Raise

\* C9: if the wrapped call raises or returns None on its first k-1
\* invocations and returns a non-None value on the k-th, k <= max_retries+1,
\* the wrapper returns that value after exactly k invocations.
C9_FirstSuccessReturned ==
    rtPc = "done" =>
        \A k \in RetryWindow :
            (/\ rtPlan[k] \notin {Raise, None}
             /\ \A n \in 1..(k - 1) : rtPlan[n] \in {Raise, None})
                => (rtResult = rtPlan[k] /\ rtCalls = k)

C9_Witness ==
    /\ rtPc = "done" /\ rtCalls = 3 /\ rtResult = "v1"
    /\ rtPlan[1] = None /\ rtPlan[2] = Raise

\* C10: register called twice in a row with the same (element_type, action,
\* page) returns the same selector both times and the second call adds no
\* entry to the page's selector list, whatever the registry held before.
C10_RegisterIdempotent ==
    (regCalls >= 2 /\ regLast.args = regPrev.args)
        => (regLast.ret = regPrev.ret /\ ~regLast.grew)

C10_Witness ==
    /\ regCalls = 3 /\ regLast.args = regPrev.args
    /\ Len(PageList(regByPage, regLast.args[3])) = 2

(***************************************************************************)
(* Claims about the pipeline                                               *)
(***************************************************************************)

\* C1: if the Tier-2 agent has run and the script it leaves fails the sanity
\* check, then when the fix step returns logic.js is the copy taken before
\* the attempt. The code restores only when the agent reports success.
C1_RestoreOnInvalid ==
    (fixLog.kind = "agent" /\ fixLog.agentRan /\ ~IsValidSdkCode(LoadFile(fixLog.left)))
        => fixLog.after = fixLog.pre

AfterPrecheck(t) == tk[t].pc \notin {"tests", "plan", "precheck"}

C3_DoneOnlyAfterAllValidators ==
    \A t \in Tasks : tk[t].pc = "done" => tk[t].passed = AllValidators

Ended(t) == tk[t].pc \in {"done", "failed"}

\* C4: within a run, every step that changes logic.js is taken by the task
\* the loop is at, when every earlier task has ended and no later task has
\* begun: the writes of task A all come before those of a later task B and
\* no two tasks write at the same time.
C4_SerialWrites ==
    [][((disk'.logic # disk.logic \/ lastWriter' # lastWriter) /\ runNo' = runNo)
         => /\ lastWriter' = cur
            /\ \A u \in Tasks : (u < cur => Ended(u)) /\ (u > cur => tk[u] = NewTask)]_vars

C4_Witness ==
    /\ cur = 2 /\ lastWriter = 2 /\ tk[1].pc = "done" /\ tk[2].pc = "verify"
    /\ disk.logic = "buggy"

C6_PlanningFailureStops ==
    "planning_failed" \in events =>
        /\ phase = "raised"
        /\ events \cap {"generation", "verification"} = {}
        /\ cur = 0 /\ \A t \in Tasks : tk[t] = NewTask
        /\ calls \subseteq PlanningCalls(5)

C6_Witness ==
    /\ "planning_failed" \in events /\ phase = "raised"
    /\ "tasks" \in disk.interm /\ "final_arch" \notin disk.interm

(***************************************************************************)
(* Claims about the golden-path repair pass                                *)
(***************************************************************************)

GpDone == uState.pc = "done"

\* C11: in the repair pass a proposed selector that is not a valid selector
\* is rewritten only if it and its replacement are both identifier (#)
\* selectors, the replacement being a valid selector; with the one valid
\* selector #task-title a proposed #title becomes #task-title; a proposed
\* class selector is never rewritten.
C11_IdOnlyRewrite ==
    GpDone =>
        \A i \in 1..Len(uArgs.steps) :
            LET proposed == uArgs.steps[i]
                kept == uState.result.steps[i]
            IN  /\ kept # proposed =>
                      /\ StartsWithHash(proposed) /\ StartsWithHash(kept)
                      /\ ~InSeq(proposed, uArgs.valid_selectors)
                      /\ InSeq(kept, uArgs.valid_selectors)
                /\ (proposed = <<"#", "title">>
                      /\ uArgs.valid_selectors = <<(<<"#", "task-", "title">>)>>)
                      => kept = <<"#", "task-", "title">>
                /\ (proposed # <<>> /\ Head(proposed) = ".") => kept = proposed

C11_Witness ==
    /\ GpDone
    /\ uArgs.steps = <<(<<"#", "title">>)>>
    /\ uArgs.valid_selectors = <<(<<".", "title">>), (<<"#", "task-", "title">>)>>
    /\ uState.result.steps = <<(<<"#", "task-", "title">>)>>

(***************************************************************************)
(* Claims about resuming                                                   *)
(***************************************************************************)

\* C12: the context rebuilt from the output directory at the start of a
\* resumed run equals, field by field, the context the run before held when
\* it ended. The code does not read back the architecture or
\* the task plans, and reads the script from the file whatever was in memory.
C12_ResumeEqualsUninterrupted ==
    [][(phase = "restore" /\ runNo > 1) => ctx' = ctx]_vars

\* C13: on a restart no step whose output file is already in the output
\* directory is executed again: no planning generator whose intermediate
\* file exists is called, and no test file that exists is generated again.
\* The code runs every planning step again unless the final architecture
\* exists, and generates again a test file that is empty.
C13_NoStepRedone ==
    [][/\ phase = "planning" =>
            \A g \in PlanningCalls(5) \ {"planning"} :
                IntermediateOf(g) \in disk.interm => g \notin calls'
       /\ \A t \in Tasks :
            disk.tests[t] # NoFile => disk'.tests[t] = disk.tests[t]]_vars

(***************************************************************************)
(* Claims about the validators' file servers                               *)
(***************************************************************************)

\* C14: when a validator call that started a file server has returned or
\* raised, whatever the outcome, the server is shut down and closed.
C14_ServerStopped ==
    (uState.pc = "done" /\ uState.started) => uState.server = "closed"

C14_Witness ==
    /\ uState.pc = "done" /\ uState.started /\ uState.outcome = "raised"
    /\ uState.server = "closed"


(***************************************************************************)
(* Claims about the stored markup                                          *)
(***************************************************************************)

\* C15: every page whose markup is stored in the generation state has, as an
\* id attribute, every selector the registry exposes for it, page-specific
\* and global. _save_pages stores the generator's answer without calling
\* validate_html.
C15_StoredMarkupHasSelectors ==
    uState.pc = "pages" =>
        \A f \in DOMAIN uState.generated_pages :
            ValidateHtml(uState.generated_pages[f], uArgs.by_page, PageOf(f)) = <<>>

(***************************************************************************)
(* Claims about the end of a run                                           *)
(***************************************************************************)

C18_DoneIffFinishFailOrReward ==
    uState.pc = "returned" =>
        (uState.done <=> (uArgs.type \in {"finish", "fail"} \/ uState.reward >= FullReward))

C18_Witness ==
    /\ uState.pc = "returned" /\ uArgs.type = "click"
    /\ uState.reward = FullReward /\ uState.done

(***************************************************************************)
(* Claims about one verification attempt                                   *)
(***************************************************************************)

ValidatorOrder == <<"backend", "integration", "golden_path">>

\* C19: in a verification attempt the validators run in the order backend,
\* integration, golden path, and none runs after one that failed: every
\* validator that ran before the last one passed.
C19_OrderAndShortCircuit ==
    uState.pc = "returned" =>
        LET ran == uState.result.ran
        IN  /\ Len(ran) <= Len(ValidatorOrder)
            /\ ran = SubSeq(ValidatorOrder, 1, Len(ran))
            /\ \A i \in 1..(Len(ran) - 1) : ran[i] \in uState.result.passed

C19_Witness ==
    /\ uState.pc = "returned" /\ uArgs.llm
    /\ uState.result.ran = <<"backend", "integration">>
    /\ ~uState.result.ok /\ ~uState.result.raised
    /\ uState.result.passed = {"backend"}

(***************************************************************************)
(* Claims about the fix-attempt budget                                     *)
(***************************************************************************)

\* C20: a task becomes failed only at a failed verification attempt that is
\* its max_fix_retries-th, and the loop then goes on to the next task. In
\* the code every exception of _process_task marks the task failed: a
\* generator that gave nothing, the integration validator raising, the
\* undefined name in the controller and markup fix.
C20_FailedOnlyAfterBudget ==
    [][\A t \in Tasks :
          (tk'[t].pc = "failed" /\ tk[t].pc # "failed")
              => /\ tk[t].pc = "verify" /\ tk[t].attempt = MaxFixRetries - 1
                 /\ cur' = cur + 1 /\ phase' = "generation"]_vars

(***************************************************************************)
(* Claims about the steps of one task                                      *)
(***************************************************************************)

\* The steps that follow a step of _process_task; "precheck" is the
\* verification of the stored script that the plan step makes.
NextStages(pc) ==
    CASE pc = "tests"      -> {"plan", "failed"}
      [] pc = "plan"       -> {"precheck", "failed"}
      [] pc = "precheck"   -> {"implement"}
      [] pc = "implement"  -> {"instrument", "verify", "failed"}
      [] pc = "instrument" -> {"frontend"}
      [] pc = "frontend"   -> {"verify"}
      [] pc = "verify"     -> {"fix", "done", "failed"}
      [] pc = "fix"        -> {"verify", "failed"}
      [] OTHER             -> {}

\* C21: within a run the steps of a task follow the order tests, plan,
\* implementation, verification; a fix that was applied is followed by a
\* verification attempt; and a task becomes done only from a verification
\* attempt that succeeded.
C21_TaskStepOrder ==
    [][\A t \in Tasks :
          (runNo' = runNo /\ tk'[t].pc # tk[t].pc)
              => /\ tk'[t].pc \in NextStages(tk[t].pc)
                 /\ (tk[t].pc = "fix" /\ fixLog'.kind \in {"tier1", "agent"})
                        => tk'[t].pc = "verify"
                 /\ tk'[t].pc = "done"
                        => (tk[t].pc = "verify"
                            /\ {"backend", "integration"} \subseteq tk'[t].passed)]_vars

C21_Witness ==
    \E t \in Tasks :
        /\ tk[t].pc = "verify" /\ tk[t].attempt = 1 /\ fixLog.kind = "tier1"
        /\ fixLog.after # fixLog.pre

\* The fix step of task t is taken.
FixStep(t) == tk[t].pc = "fix" /\ tk'[t].pc # "fix"

\* C22 (as the code has it): a failed verification whose text is classified
\* Tier 2 goes to the branch of the autonomous repair agent on every attempt
\* but the first; on the first attempt (attempt 0) it goes to the targeted
\* Tier-1 branch and the agent is not started.
C22_Tier2ToAgentAfterFirst ==
    [][\A t \in Tasks :
          (FixStep(t) /\ ClassifyErrorTier(tk[t].error) = 2)
              => IF tk[t].attempt = 0
                   THEN fixLog'.kind \in {"tier1", "none"} /\ ~fixLog'.agentRan
                   ELSE fixLog'.kind = "agent"]_vars

C22_Witness ==
    \E t \in Tasks :
        /\ tk[t].pc = "verify" /\ tk[t].attempt = 2
        /\ ClassifyErrorTier(tk[t].error) = 2
        /\ fixLog.kind = "agent" /\ fixLog.agentRan

\* C22 as stated: a Tier-2 failure that is followed by a fix is repaired by
\* the agent on every attempt, the first included.
C22_Tier2AlwaysAgent ==
    [][\A t \in Tasks :
          (FixStep(t) /\ ClassifyErrorTier(tk[t].error) = 2 /\ tk'[t].pc = "verify")
              => fixLog'.kind = "agent"]_vars

\* C23: the autonomous repair agent is started only after the backup of
\* the script and the key pages was taken, successfully, in the same fix
\* attempt: never with no backup, never with only the backup of an earlier
\* attempt.
C23_AgentOnlyAfterBackup ==
    [][\A t \in Tasks :
          (FixStep(t) /\ fixLog'.agentRan)
              => (fixLog'.snapshot /\ backup' = fixLog'.pre)]_vars

\* C24: a Tier-1 repair changes the layer that failed and no other: after
\* a failure that the Backend validator did not report (controller or
\* markup level) the targeted repair leaves the business-logic script, in
\* memory and on disk, as it was.
C24_Tier1KeepsScriptOnPageFailure ==
    [][\A t \in Tasks :
          (/\ FixStep(t)
           /\ UsesTargetedFix(ClassifyErrorTier(tk[t].error), tk[t].attempt)
           /\ ~Contains(tk[t].error, <<"Backend">>))
              => (disk'.logic = disk.logic /\ ctx'.backend_code = ctx.backend_code)]_vars

\* C25 (as the code has it): the plan is generated exactly when the task
\* has no stored plan; a stored plan is kept whatever the verification of
\* the stored script says. What the verification decides is the
\* implementation: it is skipped only if there was a stored plan and the
\* stored script passed the task's tests, and it is run, with the stored
\* plan and no new plan call, if the stored script did not pass.
C25_PlanSkippedIffStored ==
    [][\A t \in Tasks :
          /\ (tk[t].pc = "plan" /\ tk'[t].pc # "plan")
                => IF Truthy(LoadFile(disk.plan[t]))
                     THEN /\ tk'[t].pc = "precheck" /\ tk'[t].existing_plan
                          /\ calls' = calls /\ disk' = disk
                     ELSE "plan" \in calls' /\ ~tk'[t].existing_plan
          /\ (tk[t].pc = "precheck" /\ tk'[t].pc # "precheck")
                => /\ disk' = disk /\ calls' \ calls \subseteq {"validator"}
                   /\ ~tk'[t].should_implement
                        => /\ tk[t].existing_plan
                           /\ \E r \in VerifyTask(disk.logic, disk.tests[t], hasLlm) :
                                  r.ok /\ ~r.raised]_vars

C25_Witness ==
    \E t \in Tasks :
        /\ tk[t].pc = "implement" /\ tk[t].existing_plan /\ tk[t].should_implement
        /\ ScriptLen(ctx.backend_code) > SkipCheckLen
        /\ "plan" \notin calls
        /\ \A r \in VerifyTask(disk.logic, disk.tests[t], hasLlm) : ~r.ok

\* C25 as stated: the plan step is skipped only if the stored script
\* passes, so a task that kept its stored plan has a script that passed.
C25_PlanSkippedOnlyIfScriptPasses ==
    [][\A t \in Tasks :
          (tk[t].pc = "precheck" /\ tk'[t].pc = "implement" /\ tk[t].existing_plan)
              => ~tk'[t].should_implement]_vars

\* C26: the implementation step takes a regenerated script only if it is
\* neither truncated nor without the structural markers; a rejected script
\* leaves the previous script, in memory and on disk, unchanged. So after
\* the step the script is a generated one that passes the sanity check, or
\* the previous one.
C26_ImplementKeepsPreviousOnReject ==
    [][\A t \in Tasks :
          (tk[t].pc = "implement" /\ tk'[t].pc = "instrument")
              => /\ disk'.logic = ctx'.backend_code
                 /\ \/ ctx'.backend_code = ctx.backend_code
                    \/ /\ ctx'.backend_code \in ImplOutputs
                       /\ IsValidSdkCode(ctx'.backend_code)]_vars

(***************************************************************************)
(* Claims about the execution of a golden path                             *)
(***************************************************************************)

\* C27: the execution of the golden path of a task is reported successful
\* if and only if the evaluator was invoked after the steps and reported
\* that the task passed.
C27_SuccessIffEvaluatorPassed ==
    uState.pc = "returned"
        => (uState.success <=> (uState.evaluated /\ uState.result = "passed"))

\* C28: a step whose element is not found is passed over, and the next
\* step taken, if it is a navigation to the page that is current; in every
\* other case the execution ends with a failure.
C28_UnfoundStepSkippedIffCurrentPage ==
    [][(uState.pc = "steps" /\ uState.i <= Len(uArgs.steps) /\ ~uState'.found)
          => IF NavigatesToCurrent(uArgs.steps[uState.i], uState.current)
               THEN uState'.pc = "steps" /\ uState'.i = uState.i + 1
               ELSE uState'.pc = "returned" /\ ~uState'.success]_vars

(***************************************************************************)
(* Claims about the extraction of selectors                                *)
(***************************************************************************)

\* The id selectors of the markup's visible interactive tags.
FoundIds ==
    {EsSelector("id", uArgs.tags[i].id) :
        i \in {j \in 1..Len(uArgs.tags) : ~uArgs.tags[j].hidden /\ uArgs.tags[j].id # 0}}

\* C29: extract_selectors returns at most max_selectors selectors, and a
\* selector that is no id selector (a class or test-id selector) only if
\* every id selector found in the markup is returned too.
C29_AtMostMaxIdsFirst ==
    uState.pc = "returned"
        => /\ Len(uState.selectors) <= uArgs.max_selectors
           /\ (\E i \in 1..Len(uState.selectors) : uState.selectors[i].kind # "id")
                => \A s \in FoundIds : InSeq(s, uState.selectors)

C29_Witness ==
    /\ uState.pc = "returned"
    /\ Len(uState.selectors) = uArgs.max_selectors
    /\ Cardinality(UNION {TagSelectors(uArgs.tags[i]) : i \in 1..Len(uArgs.tags)})
          > uArgs.max_selectors
    /\ FoundIds # {}
    /\ \E i \in 1..Len(uState.selectors) : uState.selectors[i].kind # "id"

(***************************************************************************)
(* Claims about the names the registry gives                               *)
(***************************************************************************)

\* The characters of a safe identifier: lowercase letters, digits, hyphen.
\* The prefixes of the conventions are made of them.
SafeIdChars == {"a", "b", "-"} \cup {ConventionPrefix(et)[1] : et \in {"button", "input",
                   "filter", "form", "link", "select", "card", "container"}}

\* C30: the selector register returns is a function of the element type
\* and the action alone, the same on every page and whatever was
\* registered before, and after its "#" it holds only characters of the
\* safe identifier alphabet, whatever the action text.
C30_SelectorPureAndSafe ==
    regCalls >= 1
        => /\ regLast.ret = FullSelector(regLast.args[1], regLast.args[2])
           /\ (regCalls >= 2 /\ regLast.args[1] = regPrev.args[1]
                             /\ regLast.args[2] = regPrev.args[2])
                => regLast.ret = regPrev.ret
           /\ \A i \in 2..Len(regLast.ret) : regLast.ret[i] \in SafeIdChars

(***************************************************************************)
(* Claims about the validation of markup                                   *)
(***************************************************************************)

\* C31: validate_html returns exactly the selectors of
\* get_page_selectors(page) that are not the id attribute of an element of
\* the markup: none that is present, and every one that is absent.
C31_MissingExactlyAbsentIds ==
    uState.pc = "returned"
        => uState.missing =
             SelectSeq(GetPageSelectors(uArgs.by_page, uArgs.page),
                       LAMBDA s : Tail(s) \notin IdAttributes(uArgs.html_content))

(***************************************************************************)
(* Claims about the integration validator                                  *)
(***************************************************************************)

\* The page has an error that is no failed load of a media, style or font
\* file: it is missing, or it reports something else.
HasRealError(page) ==
    \/ ~page.exists
    \/ /\ page.event.kind # "none"
       /\ ~(page.event.kind = "console" /\ page.event.resource = "image")

\* C32: validate_all_pages starts one file server for the batch, visits
\* every listed page, also after a page that failed or is missing, reports
\* success if and only if no page has an error other than a failed load of
\* a media, style or font file, and every error it reports begins with the
\* name of its page.
C32_OneServerAllPagesSuccessIffClean ==
    uState.pc = "returned"
        => /\ uState.servers = 1 /\ ~uState.running
           /\ uState.visited = 1..Len(uArgs.page_files)
           /\ uState.success
                <=> \A i \in 1..Len(uArgs.page_files) : ~HasRealError(uArgs.page_files[i])
           /\ \A k \in 1..Len(uState.all_errors) :
                 \E i \in 1..Len(uArgs.page_files) :
                     SubSeq(uState.all_errors[k], 1, 3) = <<"[", PageFile(i), "]">>

(***************************************************************************)
(* Claims about the timeout of the backend tests                           *)
(***************************************************************************)

TimeoutError == <<"Backend", "Test", "timeout", "exceeded">>

\* C33: a timeout of the node process is an ordinary failure of the
\* verification attempt: validate returns (False, text), the text goes to
\* the classifier and the fix step, which returns to the next attempt, and
\* the task ends as failed only when the attempts are used up.
C33_TimeoutIsOrdinaryFailure ==
    [][/\ (uState.pc = "verify" /\ TimesOut(uState.env, uArgs.node_timeout))
          => /\ uState'.error = TimeoutError
             /\ uState'.pc = IF uState.attempt < MaxFixRetries - 1 THEN "fix" ELSE "failed"
       /\ (uState.pc = "fix" /\ uState.error = TimeoutError)
          => /\ uState'.pc = "verify" /\ uState'.attempt = uState.attempt + 1
             /\ uState'.branch = FixBranch(TimeoutError, uState.attempt)
             /\ uState'.branch \in {"backend", "agent"}]_vars

C33_Witness ==
    /\ uState.pc = "verify" /\ uState.attempt = 2
    /\ uState.error = TimeoutError /\ uState.branch = "agent"
    /\ TimesOut(uState.env, uArgs.node_timeout)

(***************************************************************************)
(* Claims about the concurrency limiter                                    *)
(***************************************************************************)

Running == {c \in Callers : uState.pc[c] = "running"}

\* C34: at every moment at most max_concurrency calls run under the
\* limiter, and every permit taken has been given back when its call has
\* ended, returned or raised: the free permits and the running calls add up
\* to max_concurrency.
C34_AtMostMaxConcurrency ==
    /\ Cardinality(Running) <= uArgs.max_concurrency
    /\ uState.value = uArgs.max_concurrency - Cardinality(Running)

C34_Witness ==
    /\ uArgs.max_concurrency = 1 /\ Cardinality(Running) = 1 /\ uState.value = 0
    /\ \E c \in Callers : uState.last[c] = "raised"
    /\ \E c \in Callers \ Running : uState.calls[c] = 0

(***************************************************************************)
(* Claims about the scripts after a fix                                    *)
(***************************************************************************)

\* C35: a Tier-1 fix of the script whose answer fails the sanity check, or
\* is nothing, leaves the script in memory and the script on disk as they
\* were: after the fix both are unchanged, or both are the answer and the
\* answer passes the check.
C35_InvalidFixKeepsScripts ==
    [][\A t \in Tasks :
          (FixStep(t) /\ fixLog'.kind = "tier1")
              => \/ ctx'.backend_code = ctx.backend_code /\ disk'.logic = disk.logic
                 \/ /\ IsValidSdkCode(ctx'.backend_code)
                    /\ ctx'.backend_code \in FixOutputs
                    /\ disk'.logic = ctx'.backend_code]_vars

C35_Witness ==
    /\ fixLog.kind = "tier1" /\ fixLog.pre = "nomark" /\ fixLog.after = "nomark"
    /\ ctx.backend_code = "nomark" /\ disk.logic = "nomark"
    /\ \E t \in Tasks : tk[t].pc = "verify" /\ tk[t].attempt >= 1

\* C36: at the start of every verification attempt of a task the script
\* in memory (context.backend_code) is the content of logic.js.
C36_MemoryEqualsDiskAtVerify ==
    \A t \in Tasks :
        (Active(t) /\ tk[t].pc = "verify") => ctx.backend_code = LoadFile(disk.logic)

(***************************************************************************)
(* Claims about the two indexes of the registry                            *)
(***************************************************************************)

\* C37: after any register calls every selector get_page_selectors(page)
\* returns is the selector of a contract the registry holds for that page
\* or for the global page, and get(action, page) returns what the most
\* recent register call for that action and page returned.
C37_IndexesAgree ==
    /\ \A page \in RegPages :
          \A i \in 1..Len(GetPageSelectors(regByPage, page)) :
              \E k \in DOMAIN regContracts :
                  /\ regContracts[k].page \in {page, GlobalPage}
                  /\ regContracts[k].suggested_id = GetPageSelectors(regByPage, page)[i]
    /\ regCalls >= 1 => Get(regContracts, regLast.args[2], regLast.args[3]) = regLast.ret
    /\ (regCalls >= 2 /\ <<regPrev.args[2], regPrev.args[3]>> # <<regLast.args[2], regLast.args[3]>>)
          => Get(regContracts, regPrev.args[2], regPrev.args[3]) = regPrev.ret

(***************************************************************************)
(* Claims about the steps the repair pass returns                          *)
(***************************************************************************)

\* C38: the repair pass returns as many steps as it was given, in the same
\* order, each equal to the step given but perhaps for its selector, and a
\* step without a selector unchanged.
C38_StepsKeptButSelector ==
    uState.pc = "done"
        => /\ Len(uState.steps) = Len(uArgs.steps)
           /\ \A i \in 1..Len(uArgs.steps) :
                 /\ [uState.steps[i] EXCEPT !.selector = uArgs.steps[i].selector]
                       = uArgs.steps[i]
                 /\ uArgs.steps[i].selector = NoSelector
                       => uState.steps[i] = uArgs.steps[i]

C38_Witness ==
    /\ uState.pc = "done" /\ Len(uArgs.steps) = 2
    /\ uArgs.steps[1].selector = <<"#", "title">> /\ uArgs.steps[1].action = "type"
    /\ uArgs.steps[2].selector = NoSelector
    /\ uState.steps[1].selector = <<"#", "task-", "title">>
    /\ uState.steps[2] = uArgs.steps[2]

(***************************************************************************)
(* Claims about the agent runner                                           *)
(***************************************************************************)

\* C39: run_task asks the agent for at most max_steps actions, executes no
\* action after the first step the environment reports as done, and
\* returns as step count the number of actions it executed and recorded.
C39_AtMostMaxStepsStopsWhenDone ==
    /\ uState.asked <= uArgs.max_steps
    /\ uState.after_done = 0
    /\ uState.pc = "returned"
          => (uState.steps = uState.executed /\ uState.steps = uState.recorded)

C39_Witness ==
    /\ uState.pc = "returned" /\ uArgs.max_steps = 3
    /\ uState.steps = 2 /\ uState.done /\ uState.type = "fail" /\ ~uState.success

(***************************************************************************)
(* Claims about the agent environment                                      *)
(***************************************************************************)

\* C40: after any sequence of reset and stop calls of one environment at
\* most one local web server started by it is running, no server was
\* started while an earlier one was running, and after stop none is running.
C40_AtMostOneServer ==
    /\ Cardinality(RunningServers(uState.servers)) <= 1
    /\ ~uState.overlap
    /\ uState.last = "stop" => RunningServers(uState.servers) = {}

C40_Witness ==
    /\ uState.last = "reset" /\ uState.outcome = "returned"
    /\ uState.servers = <<"closed", "closed", "running">> /\ uState.stops = 1

====
